---------------------------- MODULE Spec2Model ----------------------------
(***************************************************************************)
(* Scheduling engine of the kana trainer: the per-card state machine of    *)
(* Db::update_card and the batch composition of Db::get_next_batch         *)
(* (src/src/db.rs), over the rows of the `progress` table.                 *)
(*                                                                         *)
(* Number representation.  The code computes in f64; the model computes in *)
(* exact integer arithmetic:                                               *)
(*   - stability is a dyadic number [m, e] = m / 2^e seconds, so that the  *)
(*     multiplication by 0.5 is exact as it is in binary floating point;   *)
(*   - difficulty is counted in tenths (5.0 is 50);                        *)
(*   - multipliers (growth, delay bonus) are fixed-point with Scale units  *)
(*     per 1.0, and the fuzz factor is counted in 1/FuzzDen;               *)
(*   - `as i64` truncates, which on the non-negative values here is floor. *)
(* Times are whole seconds.                                                *)
(***************************************************************************)
EXTENDS Integers, Sequences, FiniteSets, TLC

VARIABLES
    progress,   \* the rows of the progress table, a set of Card records
    now,        \* Utc::now(), in seconds
    answers,    \* update_card calls so far (bounds the behaviours)
    growths,    \* correct Review answers so far (bounds the behaviours)
    calls,      \* the last update_card calls: the row read, the answer, the result
    batch,      \* the Vec<Card> the last get_next_batch returned
    fetched,    \* when it was called (NoReview before the first call)
    due_cards,            \* App.due_cards: the batch the API serves
    current_card_index,   \* App.current_card_index, counted from 0
    cycle_mistakes,       \* App.cycle_mistakes: ids answered wrong
    submitted,  \* the last /api/submit request and what it did
    mutex,      \* the request holding ApiState.app's Mutex (NoTask: free)
    tasks,      \* the submit requests in flight, by task
    twin,       \* two runs of the update computation side by side
    app,        \* the terminal quiz's App (src/src/app.rs)
    key_event,  \* the key event it handled last
    sm2,        \* a call of calculate_new_progress and its result
    client      \* the web client's signals and its requests in flight

\* the state of the terminal quiz, of the SM-2 calculation and of the web
\* client
tuiVars == <<app, key_event, sm2, client>>

\* the state of the API layer and of the side-by-side runs, and tuiVars
appVars == <<due_cards, current_card_index, cycle_mistakes, submitted,
             mutex, tasks, twin, app, key_event, sm2, client>>

vars == <<progress, now, answers, growths, calls, batch, fetched,
          due_cards, current_card_index, cycle_mistakes, submitted,
          mutex, tasks, twin, app, key_event, sm2, client>>

-----------------------------------------------------------------------------
(* Bounds of the model *)

\* update_card calls a behaviour may contain
MaxAnswers == 5
\* correct answers to a Review card (stability growths) among them
MaxGrowths == 1

-----------------------------------------------------------------------------
(* Arithmetic *)

Scale == 1000 * 1000
FuzzDen == 10 * 1000
\* ln 2 in Scale units
Ln2 == 693147

Max(a, b) == IF a >= b THEN a ELSE b

RECURSIVE MulDivRem(_, _, _)
\* <<q, r>> with x * b = q * c + r and 0 <= r < c, for 0 <= x < c; no
\* intermediate exceeds 3 * c.
MulDivRem(x, b, c) ==
    IF b = 0 THEN <<0, 0>>
    ELSE LET h == MulDivRem(x, b \div 2, c)
             t == 2 * h[2] + (b % 2) * x
         IN  <<2 * h[1] + (t \div c), t % c>>

\* floor(a * b / c)
MulDiv(a, b, c) == (a \div c) * b + MulDivRem(a % c, b, c)[1]

RECURSIVE Log2Floor(_, _)
\* the largest k with d * 2^k <= n, for n >= d >= 1
Log2Floor(n, d) == IF 2 * d > n THEN 0 ELSE 1 + Log2Floor(n, 2 * d)

\* f64::ln of n / d (n >= d >= 1) in Scale units:
\* ln(2^k * f) = k ln 2 + 2 atanh((f - 1) / (f + 1)), the series cut after z^7.
LnFix(n, d) ==
    LET k  == Log2Floor(n, d)
        D  == d * (2 ^ k)
        z  == MulDiv(n - D, Scale, n + D)
        z2 == MulDiv(z, z, Scale)
        z3 == MulDiv(z, z2, Scale)
        z5 == MulDiv(z3, z2, Scale)
        z7 == MulDiv(z5, z2, Scale)
    IN  k * Ln2 + 2 * (z + (z3 \div 3) + (z5 \div 5) + (z7 \div 7))

\* the f64 value of a whole number of seconds
Secs(n) == [m |-> n, e |-> 0]

RECURSIVE Normal(_)
\* the same dyadic number with the smallest exponent
Normal(s) ==
    IF s.m = 0 THEN Secs(0)
    ELSE IF s.e > 0 /\ s.m % 2 = 0 THEN Normal([m |-> s.m \div 2, e |-> s.e - 1])
    ELSE s

\* s * 0.5
Half(s) == Normal([m |-> s.m, e |-> s.e + 1])

\* s * g for a multiplier g in Scale units
Times(s, g) == Normal([m |-> MulDiv(s.m, g, Scale), e |-> s.e])

\* (s * 1.6) as i64
ReviewInterval(s) == MulDiv(s.m, 8, 5 * (2 ^ s.e))

\* (s * 1.6 * fuzz_factor) as i64, fuzz_factor = fz / FuzzDen
FuzzedInterval(s, fz) == MulDiv(s.m, 8 * fz, 5 * FuzzDen * (2 ^ s.e))

-----------------------------------------------------------------------------
(* The progress table *)

\* last_review IS NULL
NoReview == -1

\* Card.state
New == 0
Learning == 1
Review == 2
Relearning == 3

\* The kana of the single-row specifications: update_card reads and writes
\* the one row WHERE kana_char = ?, so these specifications follow one row.
KanaData == {1}

\* A row as INSERT (kana_char, romaji) leaves it: the column defaults.
DefaultRow(id) ==
    [ id          |-> id,
      stability   |-> Secs(86400),
      difficulty  |-> 50,
      last_review |-> NoReview,
      state       |-> New,
      step        |-> 0,
      interval    |-> 0,
      lapses      |-> 0,
      suspended   |-> FALSE ]

\* rng.gen_range(0.95..1.05), in 1/FuzzDen: both ends of the range and its middle
FuzzChoices == {9500, 10000, 10499}

-----------------------------------------------------------------------------
(* Db::update_card *)

\* Mutant of LearningStep: the `step == 1` rung is missing, so the second
\* correct answer graduates.
LearningStepNoSecondRung(c, correct) ==
    IF correct
    THEN IF c.step = 0
         THEN [c EXCEPT !.interval = 60, !.state = Learning, !.step = 1]
         ELSE [c EXCEPT !.state = Review, !.step = 0,
                        !.stability = Secs(86400), !.interval = 86400]
    ELSE [c EXCEPT !.state = Learning, !.step = 0, !.interval = 60]

\* Mutant of LearningStep: graduation forgets `step = 0`.
LearningStepKeepsStep(c, correct) ==
    IF correct
    THEN IF c.step = 0
         THEN [c EXCEPT !.interval = 60, !.state = Learning, !.step = 1]
         ELSE IF c.step = 1
         THEN [c EXCEPT !.interval = 600, !.state = Learning, !.step = 2]
         ELSE [c EXCEPT !.state = Review,
                        !.stability = Secs(86400), !.interval = 86400]
    ELSE [c EXCEPT !.state = Learning, !.step = 0, !.interval = 60]

\* Mutant of LearningStep: a wrong answer forgets `state = 1`.
LearningStepKeepsState(c, correct) ==
    IF correct
    THEN IF c.step = 0
         THEN [c EXCEPT !.interval = 60, !.state = Learning, !.step = 1]
         ELSE IF c.step = 1
         THEN [c EXCEPT !.interval = 600, !.state = Learning, !.step = 2]
         ELSE [c EXCEPT !.state = Review, !.step = 0,
                        !.stability = Secs(86400), !.interval = 86400]
    ELSE [c EXCEPT !.step = 0, !.interval = 60]

\* Mutant of LearningStep: graduation counts the step on.
LearningStepCountsOn(c, correct) ==
    IF correct
    THEN IF c.step = 0
         THEN [c EXCEPT !.interval = 60, !.state = Learning, !.step = 1]
         ELSE IF c.step = 1
         THEN [c EXCEPT !.interval = 600, !.state = Learning, !.step = 2]
         ELSE [c EXCEPT !.state = Review, !.step = c.step + 1,
                        !.stability = Secs(86400), !.interval = 86400]
    ELSE [c EXCEPT !.state = Learning, !.step = 0, !.interval = 60]

\* Mutant of LearningStep: a wrong answer forgets `step = 0`.
LearningStepWrongKeepsStep(c, correct) ==
    IF correct
    THEN IF c.step = 0
         THEN [c EXCEPT !.interval = 60, !.state = Learning, !.step = 1]
         ELSE IF c.step = 1
         THEN [c EXCEPT !.interval = 600, !.state = Learning, !.step = 2]
         ELSE [c EXCEPT !.state = Review, !.step = 0,
                        !.stability = Secs(86400), !.interval = 86400]
    ELSE [c EXCEPT !.state = Learning, !.interval = 60]

\* state == 0 || state == 1
LearningStep(c, correct) ==
    IF correct
    THEN IF c.step = 0
         THEN [c EXCEPT !.interval = 60, !.state = Learning, !.step = 1]
         ELSE IF c.step = 1
         THEN [c EXCEPT !.interval = 600, !.state = Learning, !.step = 2]
         ELSE [c EXCEPT !.state = Review, !.step = 0,
                        !.stability = Secs(86400), !.interval = 86400]
    ELSE [c EXCEPT !.state = Learning, !.step = 0, !.interval = 60]

\* growth_multiplier of a correct Review answer at time t, in Scale units
GrowthMultiplier(c, t) ==
    LET base == Scale + c.difficulty * (Scale \div 50)
    IN  IF c.last_review = NoReview THEN base
        ELSE LET actual    == Max(t - c.last_review, 1)
                 scheduled == Max(c.interval, 1)
             IN  IF actual > scheduled
                 THEN MulDiv(base, Scale + (LnFix(actual, scheduled) \div 2), Scale)
                 ELSE Scale + MulDiv(base - Scale, actual, scheduled)

\* Mutant of ReviewCorrect: the interval is taken from the stability read,
\* not from the one just computed.
ReviewCorrectOldStability(c, t, fz) ==
    LET s == Times(c.stability, GrowthMultiplier(c, t))
    IN  [c EXCEPT !.stability = s,
                  !.difficulty = c.difficulty - 2,
                  !.interval = FuzzedInterval(c.stability, fz)]

\* Mutant of ReviewCorrect: the fuzz factor is applied to the stability.
ReviewCorrectFuzzedStability(c, t, fz) ==
    LET s == Times(Times(c.stability, GrowthMultiplier(c, t)), fz * (Scale \div FuzzDen))
    IN  [c EXCEPT !.stability = s,
                  !.difficulty = c.difficulty - 2,
                  !.interval = ReviewInterval(s)]

\* state == 2, correct
ReviewCorrect(c, t, fz) ==
    LET s == Times(c.stability, GrowthMultiplier(c, t))
    IN  [c EXCEPT !.stability = s,
                  !.difficulty = c.difficulty - 2,
                  !.interval = FuzzedInterval(s, fz)]

\* Mutant of ReviewLapse: stability is slashed to a quarter.
ReviewLapseQuarter(c) ==
    [c EXCEPT !.lapses = c.lapses + 1,
              !.state = Relearning,
              !.step = 0,
              !.interval = 600,
              !.stability = Half(Half(c.stability)),
              !.difficulty = c.difficulty + 5]

\* state == 2, wrong: the lapse
ReviewLapse(c) ==
    [c EXCEPT !.lapses = c.lapses + 1,
              !.state = Relearning,
              !.step = 0,
              !.interval = 600,
              !.stability = Half(c.stability),
              !.difficulty = c.difficulty + 5]

\* Mutant of RelearningStep: a wrong answer counts as a lapse.
RelearningStepCountsLapse(c, correct) ==
    IF correct
    THEN [c EXCEPT !.state = Review, !.interval = ReviewInterval(c.stability)]
    ELSE [c EXCEPT !.interval = 600, !.lapses = c.lapses + 1]

\* Mutant of RelearningStep: a wrong answer sends the card back to Learning.
RelearningStepBackToLearning(c, correct) ==
    IF correct
    THEN [c EXCEPT !.state = Review, !.interval = ReviewInterval(c.stability)]
    ELSE [c EXCEPT !.state = Learning, !.interval = 60]

\* Mutant of RelearningStep: a wrong answer slashes the stability again.
RelearningStepSlashes(c, correct) ==
    IF correct
    THEN [c EXCEPT !.state = Review, !.interval = ReviewInterval(c.stability)]
    ELSE [c EXCEPT !.interval = 600, !.stability = Half(c.stability),
                   !.lapses = c.lapses + 1]

\* state == 3
RelearningStep(c, correct) ==
    IF correct
    THEN [c EXCEPT !.state = Review, !.interval = ReviewInterval(c.stability)]
    ELSE [c EXCEPT !.interval = 600]

\* Mutant of ClampD: the upper clamp is missing.
ClampDLowOnly(d) == IF d < 10 THEN 10 ELSE d

\* if d < 1.0 { d = 1.0 }  if d > 10.0 { d = 10.0 }
ClampD(d) == IF d < 10 THEN 10 ELSE IF d > 100 THEN 100 ELSE d

\* Mutant of ClampInterval: no floor.
ClampIntervalNone(i) == i

\* Mutant of ClampInterval: a short interval is raised to 600.
ClampIntervalTypo(i) == IF i < 60 THEN 600 ELSE i

\* if interval < 60 { interval = 60 }
ClampInterval(i) == IF i < 60 THEN 60 ELSE i

\* The row update_card writes for the row c it read, at time t with fuzz fz.
\* `interval` starts at 0 and every branch assigns it; a state outside 0..3
\* takes no branch.
UpdatedRow(c, correct, t, fz) ==
    LET c0 == [c EXCEPT !.interval = 0]
        r  == IF c.state = New \/ c.state = Learning THEN LearningStep(c0, correct)
              ELSE IF c.state = Review
              THEN IF correct THEN ReviewCorrect(c, t, fz) ELSE ReviewLapse(c0)
              ELSE IF c.state = Relearning THEN RelearningStep(c0, correct)
              ELSE c0
    IN  [r EXCEPT !.difficulty = ClampD(r.difficulty),
                  !.interval = ClampInterval(r.interval),
                  !.last_review = t]

-----------------------------------------------------------------------------
(* The API layer's state *)

\* no task holds the Mutex; no row was read; no request was made
NoTask == 0
NoRow == [id |-> 0]
NoSubmit == [id |-> 0]
NoTwin == [correct |-> FALSE, t |-> 0]

\* the tasks that may run /api/submit at the same time
Tasks == {1, 2}

Idle == [pc |-> "idle"]

\* The App as constructed: no batch yet, the cursor at 0, no mistakes; the
\* Mutex around it free and no request in flight.
AppNew ==
    /\ due_cards = <<>>
    /\ current_card_index = 0
    /\ cycle_mistakes = {}
    /\ submitted = NoSubmit
    /\ mutex = NoTask
    /\ tasks = [k \in Tasks |-> Idle]
    /\ twin = NoTwin

\* the terminal quiz is not running and nothing was calculated
NoApp == [current_screen |-> "Off"]
NoKey == [code |-> "None", ch |-> ""]
NoSm2 == [grade |-> 0]

\* the web client is not open
NoClient == [loading |-> FALSE]

TuiOff ==
    /\ app = NoApp
    /\ key_event = NoKey
    /\ sm2 = NoSm2
    /\ client = NoClient

-----------------------------------------------------------------------------
(* Operations on one row *)

\* Only differences now - last_review are ever read (db.rs:148, 295), so the
\* single-row specifications measure time from the row's last review: the
\* instant update_card stores as last_review becomes the origin.
Rebased(row, t) == [row EXCEPT !.last_review = row.last_review - t]

\* How many update_card calls `calls` remembers
Window == 3

Remember(log, entry) ==
    LET all == Append(log, entry)
    IN  IF Len(all) > Window THEN Tail(all) ELSE all

\* seed_database_if_empty: count == 0, then one INSERT per kana
Seed ==
    /\ progress = {}
    /\ progress' = {DefaultRow(k) : k \in KanaData}
    /\ UNCHANGED <<now, answers, growths, calls, batch, fetched>>
    /\ UNCHANGED appVars

\* The fuzz factors a call may draw: rng.gen_range runs only in the correct
\* Review branch (db.rs:319-320); elsewhere no factor is drawn or read.
FuzzDrawn(c, correct) ==
    IF c.state = Review /\ correct THEN FuzzChoices ELSE {FuzzDen}

\* actual_interval (db.rs:295), a local of the correct Review branch with a
\* last_review; 0 where the call never computes it.
ActualInterval(c, correct, t) ==
    IF c.state = Review /\ correct /\ c.last_review # NoReview
    THEN Max(t - c.last_review, 1)
    ELSE 0

\* update_card(id, correct): read the row, compute, UPDATE, commit, Ok(interval)
UpdateCard(id, correct) ==
    \E c \in progress :
        /\ c.id = id
        /\ answers < MaxAnswers
        /\ (c.state = Review /\ correct) => growths < MaxGrowths
        /\ \E fz \in FuzzDrawn(c, correct) :
             LET r == UpdatedRow(c, correct, now, fz)
             IN  /\ progress' = (progress \ {c}) \cup {Rebased(r, now)}
                 /\ calls' = Remember(calls, [before  |-> c,
                                               correct |-> correct,
                                               actual  |-> ActualInterval(c, correct, now),
                                               ret     |-> r.interval])
        /\ answers' = answers + 1
        /\ growths' = IF c.state = Review /\ correct THEN growths + 1 ELSE growths
        /\ now' = 0
        /\ UNCHANGED <<batch, fetched>>
        /\ UNCHANGED appVars

\* The times at which a Review row is answered: early, on time, late.
WaitChoices(c) == {c.interval \div 2, c.interval, 2 * c.interval}

\* Time passes.  update_card reads the clock only for a Review row.
Wait ==
    \E c \in progress :
        /\ c.state = Review
        /\ c.last_review # NoReview
        /\ \E t \in WaitChoices(c) : t > now /\ now' = t
        /\ UNCHANGED <<progress, answers, growths, calls, batch, fetched>>
        /\ UNCHANGED appVars

Init ==
    /\ progress = {}
    /\ now = 0
    /\ answers = 0
    /\ growths = 0
    /\ calls = <<>>
    /\ batch = <<>>
    /\ fetched = NoReview
    /\ AppNew
    /\ TuiOff

Next ==
    \/ Seed
    \/ \E id \in KanaData, correct \in BOOLEAN : UpdateCard(id, correct)
    \/ Wait

\* A fresh database: the table is created empty and seeded.
Spec == Init /\ [][Next]_vars

-----------------------------------------------------------------------------
(* An existing database *)

\* Db::new opens kana.db with mode=rwc and seeds it only when it is empty, so
\* the rows it finds are an input.  The rows below are rows update_card
\* itself writes after enough answers (low and high stability, difficulty at
\* both clamps, seven lapses), a Learning row with a step beyond the ladder,
\* and a leech: a row with eight lapses whose `suspended` column is set, which
\* this code reads and writes back but never sets.
StoredLearning ==
    { [DefaultRow(k) EXCEPT !.state = Learning, !.step = sp,
                            !.interval = 60, !.last_review = 0] :
        k \in KanaData, sp \in 0 .. 3 }

\* <<stability, difficulty, lapses, suspended>> of the stored Review and
\* Relearning rows
StoredMemory ==
    { <<86400, 50, 0, FALSE>>, <<100000, 50, 0, FALSE>>, <<30, 100, 7, FALSE>>,
      <<86400, 10, 7, FALSE>>, <<86400, 100, 8, TRUE>> }

StoredReviewed ==
    { [DefaultRow(k) EXCEPT !.state = st,
                            !.stability = Secs(me[1]), !.difficulty = me[2],
                            !.lapses = me[3], !.suspended = me[4],
                            !.interval = IF st = Relearning THEN 600
                                         ELSE IF me[1] = 100000 THEN 100000
                                         ELSE 86400,
                            !.last_review = 0] :
        k \in KanaData, st \in {Review, Relearning}, me \in StoredMemory }

StoredRows ==
    {DefaultRow(k) : k \in KanaData} \cup StoredLearning \cup StoredReviewed

InitStored ==
    /\ progress \in {{}} \cup {{r} : r \in StoredRows}
    /\ now = 0
    /\ answers = 0
    /\ growths = 0
    /\ calls = <<>>
    /\ batch = <<>>
    /\ fetched = NoReview
    /\ AppNew
    /\ TuiOff

SpecStored == InitStored /\ [][Next]_vars

-----------------------------------------------------------------------------
(* Properties of update_card *)

Called == calls # <<>>

\* the last update_card call
Last == calls[Len(calls)]

RowOf(id) == CHOOSE c \in progress : c.id = id

\* the row the last call wrote
Written == RowOf(Last.before.id)

\* the i-th of the last n calls
Nth(n, i) == calls[Len(calls) - n + i]

\* the row as the i-th of the last n calls left it
AfterNth(n, i) == IF i < n THEN Nth(n, i + 1).before ELSE Written

\* the last n calls were all answered correctly
CorrectRun(n) == Len(calls) >= n /\ \A i \in 1 .. n : Nth(n, i).correct

\* a row nobody has answered yet
BrandNew(c) == c.state = New /\ c.step = 0 /\ c.last_review = NoReview

\* comparisons of a stability with a whole number of seconds
StabilityIs(s, n) == s.m = n * (2 ^ s.e)
StabilityAtLeast(s, n) == s.m >= n * (2 ^ s.e)

\* C1: three successive correct answers to a brand-new card return 60, 600
\* and 86400 in that order and leave the card in Learning/step 1, then
\* Learning/step 2, then Review/step 0 with stability 86400.
C1_LadderFromNew ==
    (CorrectRun(3) /\ BrandNew(Nth(3, 1).before)) =>
        /\ Nth(3, 1).ret = 60
        /\ AfterNth(3, 1).state = Learning /\ AfterNth(3, 1).step = 1
        /\ Nth(3, 2).ret = 600
        /\ AfterNth(3, 2).state = Learning /\ AfterNth(3, 2).step = 2
        /\ Nth(3, 3).ret = 86400
        /\ Written.state = Review /\ Written.step = 0
        /\ StabilityIs(Written.stability, 86400)

C1_Witness ==
    /\ CorrectRun(3)
    /\ BrandNew(Nth(3, 1).before)
    /\ Written.state = Review
    /\ Written.interval = 86400

C3_LapseHalves ==
    (Called /\ Last.before.state = Review /\ ~Last.correct) =>
        /\ Written.lapses = Last.before.lapses + 1
        /\ 2 * Written.stability.m * (2 ^ Last.before.stability.e)
             = Last.before.stability.m * (2 ^ Written.stability.e)

C3_Witness ==
    /\ Called
    /\ Last.before.state = Review
    /\ ~Last.correct
    /\ Written.lapses = 1
    /\ StabilityIs(Written.stability, 43200)

\* C4: when an incorrect answer on a Review card (one not yet suspended)
\* brings lapses to 8 or more, the update sets suspended and leaves interval
\* at its pre-lapse value.
C4_LeechSuspended ==
    ( /\ Called
      /\ Last.before.state = Review
      /\ ~Last.before.suspended
      /\ ~Last.correct
      /\ Written.lapses >= 8 ) =>
        /\ Written.suspended
        /\ Written.interval = Last.before.interval

C8_DifficultyClamped ==
    \A c \in progress : c.difficulty >= 10 /\ c.difficulty <= 100

C8_Witness ==
    /\ Called
    /\ Last.before.state = Review
    /\ ~Last.correct
    /\ Last.before.difficulty = 100
    /\ Written.difficulty = 100

\* C9: every update_card call stores and returns an interval of at least 60
\* seconds, so every reviewed card has interval >= 60.
C9_IntervalFloor ==
    /\ \A c \in progress : c.last_review # NoReview => c.interval >= 60
    /\ Called => Last.ret >= 60 /\ Last.ret = Written.interval

C9_Witness ==
    /\ Called
    /\ Last.before.state = Relearning
    /\ Last.correct
    /\ ReviewInterval(Last.before.stability) < 60
    /\ Last.ret = 60

\* C10: a card in state New has no last_review and has lapses 0.
C10_NewIsUntouched ==
    \A c \in progress : c.state = New => c.last_review = NoReview /\ c.lapses = 0

C10_Witness ==
    /\ progress # {}
    /\ \E c \in progress : c.state = New
    /\ now = 0

-----------------------------------------------------------------------------
(* Db::get_next_batch *)

BatchSize == 20
NewCardQuota == 5

\* strftime('%s', 'now') - strftime('%s', last_review)
Elapsed(c, t) == t - c.last_review

\* state IN (1, 2, 3) AND elapsed >= interval; a NULL last_review makes the
\* comparison NULL, which WHERE and CASE WHEN treat as false
IsDue(c, t) ==
    /\ c.state \in {Learning, Review, Relearning}
    /\ c.last_review # NoReview
    /\ Elapsed(c, t) >= c.interval

\* Mutant of Priority: the first two WHEN arms are swapped.
PriorityReviewFirst(c) ==
    IF c.state = Review THEN 1
    ELSE IF c.state \in {Learning, Relearning} THEN 2
    ELSE 3

\* CASE WHEN state IN (1, 3) THEN 1 WHEN state = 2 THEN 2 ELSE 3 END
Priority(c) ==
    IF c.state \in {Learning, Relearning} THEN 1
    ELSE IF c.state = Review THEN 2
    ELSE 3

\* Query A's ORDER BY keys: the CASE ascending, then elapsed DESC
DueKey(c, t) == << Priority(c), 0 - Elapsed(c, t) >>

\* ORDER BY over the key tuples a and b: a sorts strictly before b
KeyBefore(a, b) ==
    \E i \in 1 .. Len(a) : a[i] < b[i] /\ \A j \in 1 .. (i - 1) : a[j] = b[j]

\* strftime('%s', last_review) + interval
DueTime(c) == IF c.last_review = NoReview THEN NoReview ELSE c.last_review + c.interval

\* Query C's ORDER BY keys
BackfillKey(c, t) ==
    << IF IsDue(c, t) THEN 0 ELSE 1,
       IF c.state \in {Learning, Relearning} THEN 1 ELSE 2,
       IF IsDue(c, t) THEN 0 - Elapsed(c, t) ELSE 0,
       DueTime(c) >>

\* ORDER BY key LIMIT k over the rows C: the sets of rows the query may
\* return.  Rows the keys do not separate come in either order, so a cut
\* through such a group returns any part of it of the right size.
Limit(C, k, key) ==
    IF Cardinality(C) <= k THEN {C}
    ELSE LET Before(x, y) == KeyBefore(key[x], key[y])
             sure  == {x \in C : Cardinality({y \in C : ~Before(x, y)}) <= k}
             maybe == {x \in C \ sure : Cardinality({y \in C : Before(y, x)}) < k}
         IN  {sure \cup T : T \in {U \in SUBSET maybe :
                                      Cardinality(U) = k - Cardinality(sure)}}

RECURSIVE SumOver(_, _)
SumOver(f, S) ==
    IF S = {} THEN 0
    ELSE LET x == CHOOSE x \in S : TRUE IN f[x] + SumOver(f, S \ {x})

\* ORDER BY RANDOM() LIMIT k over the rows N: any k of them.  Rows that agree
\* on every column but the key are interchangeable, so of each such group the
\* model takes the rows with the smallest keys: one choice per way of
\* dividing k among the groups.
RandomPicks(N, k) ==
    IF Cardinality(N) <= k THEN {N}
    ELSE LET Columns(c) == [c EXCEPT !.id = 0]
             Lowest(S, j) ==
                 {x \in S : Cardinality({y \in S : y.id < x.id}) < j}
             groups == {Columns(c) : c \in N}
             Of(g)  == {c \in N : Columns(c) = g}
         IN  { UNION {Lowest(Of(g), f[g]) : g \in groups} :
                 f \in {h \in [groups -> 0 .. k] :
                          /\ SumOver(h, groups) = k
                          /\ \A g \in groups : h[g] <= Cardinality(Of(g))} }

\* the rows S as a Vec in the order of their keys; rows the keys do not
\* separate are laid out by id
Sorted(S, key) ==
    LET Precedes(y, x) == KeyBefore(key[y] \o <<y.id>>, key[x] \o <<x.id>>)
    IN  [i \in 1 .. Cardinality(S) |->
            CHOOSE x \in S : Cardinality({y \in S : Precedes(y, x)}) = i - 1]

\* the new cards, appended in the order the model lays them out in
ById(c) == << c.id >>

\* let limit_due = batch_size - new_card_quota
LimitDue == BatchSize - NewCardQuota

\* Mutant of LimitNew: the new-card query is capped at the quota.
LimitNewQuota(n) == IF BatchSize - n < NewCardQuota THEN BatchSize - n ELSE NewCardQuota

\* Mutant of LimitNew: the new-card query is limited by the whole batch size.
LimitNewWholeBatch(n) == BatchSize

\* slots_remaining = batch_size - all_cards.len(); limit_new = slots_remaining
LimitNew(n) == BatchSize - n

\* slice.shuffle(&mut rng): the permutations of the Vec the model draws
Shuffles(s) ==
    LET Reversed == [i \in 1 .. Len(s) |-> s[Len(s) + 1 - i]]
        Rotated  == IF s = <<>> THEN s ELSE Tail(s) \o <<Head(s)>>
    IN  {s, Reversed, Rotated}

\* Mutant of Batches: the backfill rows are pushed without the look-up in
\* existing_ids.
BatchesUnfiltered(rows, t) ==
    LET due      == {c \in rows : IsDue(c, t)}
        fresh    == {c \in rows : c.state = New}
        nonNew   == {c \in rows : c.state \in {Learning, Review, Relearning}}
        DueB  == [c \in rows |-> DueKey(c, t)]
        BackB == [c \in rows |-> BackfillKey(c, t)]
        IdB   == [c \in rows |-> ById(c)]
    IN  UNION { UNION { LET all == Sorted(A, DueB) \o Sorted(B, IdB)
                            needed   == BatchSize - Len(all)
                        IN  IF Len(all) < BatchSize
                            THEN UNION { UNION { Shuffles(all \o Sorted(F, BackB)) :
                                     F \in Limit(P, needed, BackB) } :
                                   P \in Limit(nonNew, needed + 30, BackB) }
                            ELSE Shuffles(all) :
                        B \in IF LimitNew(Cardinality(A)) > 0
                              THEN RandomPicks(fresh, LimitNew(Cardinality(A)))
                              ELSE {{}} } :
                A \in Limit(due, LimitDue, DueB) }

\* The Vecs get_next_batch may return for the table `rows` at time t.
Batches(rows, t) ==
    LET due      == {c \in rows : IsDue(c, t)}
        fresh    == {c \in rows : c.state = New}
        nonNew   == {c \in rows : c.state \in {Learning, Review, Relearning}}
        DueB  == [c \in rows |-> DueKey(c, t)]
        BackB == [c \in rows |-> BackfillKey(c, t)]
        IdB   == [c \in rows |-> ById(c)]
    IN  UNION { UNION { LET all == Sorted(A, DueB) \o Sorted(B, IdB)
                            needed   == BatchSize - Len(all)
                            existing == {c.id : c \in A \cup B}
                        IN  IF Len(all) < BatchSize
                            THEN UNION { UNION { Shuffles(all \o Sorted(F, BackB)) :
                                     F \in Limit({c \in P : c.id \notin existing},
                                                 needed, BackB) } :
                                   P \in Limit(nonNew, needed + 30, BackB) }
                            ELSE Shuffles(all) :
                        B \in IF LimitNew(Cardinality(A)) > 0
                              THEN RandomPicks(fresh, LimitNew(Cardinality(A)))
                              ELSE {{}} } :
                A \in Limit(due, LimitDue, DueB) }

GetNextBatch ==
    /\ \E b \in Batches(progress, now) : batch' = b
    /\ fetched' = now
    /\ UNCHANGED <<progress, now, answers, growths, calls>>
    /\ UNCHANGED appVars


-----------------------------------------------------------------------------
(* Batches over a populated table *)

\* the instant the batch specification starts at
Epoch == 400 * 1000

\* a reviewed row, last answered `age` seconds before Epoch
Answered(id, st, iv, age, la, su) ==
    [DefaultRow(id) EXCEPT !.state = st,
                           !.step = IF st = Learning THEN 1 ELSE 0,
                           !.interval = iv,
                           !.last_review = Epoch - age,
                           !.lapses = la,
                           !.suspended = su]

\* A table of nl due Learning rows, nx due Relearning rows, nr due Review
\* rows (overdue by amounts that agree in pairs), nn New rows, na Review rows
\* not yet due, and ns due Review rows that are suspended leeches.
Pool(nl, nx, nr, nn, na, ns) ==
    LET o2 == nl
        o3 == o2 + nx
        o4 == o3 + nr
        o5 == o4 + nn
        o6 == o5 + na
    IN  {Answered(i, Learning, 60, 60 + 10 * i, 0, FALSE) : i \in 1 .. nl}
        \cup {Answered(o2 + i, Relearning, 600, 600 + 10 * i, 1, FALSE) : i \in 1 .. nx}
        \cup {Answered(o3 + i, Review, 86400, 86400 + 100 * ((i + 1) \div 2), 0, FALSE) :
                i \in 1 .. nr}
        \cup {DefaultRow(o4 + i) : i \in 1 .. nn}
        \cup {Answered(o5 + i, Review, 86400, 1000 * i, 0, FALSE) : i \in 1 .. na}
        \cup {Answered(o6 + i, Review, 86400, 86400 + 5000 + i, 8, TRUE) : i \in 1 .. ns}

\* the pool of the batch scenario: 3 due Learning, 10 due Review, 50 New cards
ScenarioPool == Pool(3, 0, 10, 50, 0, 0)

Pools ==
    { Pool(nl, nx, nr, nn, na, ns) :
        nl \in {0, 3}, nx \in {0, 2}, nr \in {0, 10, 16},
        nn \in {0, 4, 12}, na \in {0, 5}, ns \in {0, 1} }
    \cup {ScenarioPool}

\* the times at which a batch is requested
BatchTimes == {Epoch, Epoch + 43200, Epoch + 86400}

Tick ==
    /\ \E t \in BatchTimes : t > now /\ now' = t
    /\ UNCHANGED <<progress, answers, growths, calls, batch, fetched>>
    /\ UNCHANGED appVars

InitBatch ==
    /\ progress \in Pools
    /\ now = Epoch
    /\ answers = 0
    /\ growths = 0
    /\ calls = <<>>
    /\ batch = <<>>
    /\ fetched = NoReview
    /\ AppNew
    /\ TuiOff

NextBatch ==
    \/ GetNextBatch
    \/ Tick

SpecBatch == InitBatch /\ [][NextBatch]_vars

-----------------------------------------------------------------------------
(* Properties of get_next_batch *)

Fetched == fetched # NoReview

\* the cards of the batch in state st, by key
InBatch(st) == {batch[i].id : i \in {j \in 1 .. Len(batch) : batch[j].state = st}}

\* how many entries of the batch are in state st
CountInBatch(st) == Cardinality({j \in 1 .. Len(batch) : batch[j].state = st})

-----------------------------------------------------------------------------
(* The HTTP API: /api/next_batch and /api/submit over the App *)

\* where an update_card call may fail: pool.begin, the SELECT (also: no row
\* with that kana_char), the UPDATE, tx.commit
FailPoints == {"begin", "select", "update", "commit"}
Outcomes == FailPoints \cup {"ok"}

\* Mutant of Committed: no transaction, the UPDATE is durable once executed.
CommittedAutocommit(rows, c, r, at) ==
    IF at \in {"ok", "commit"} THEN (rows \ {c}) \cup {r} ELSE rows

\* The table after update_card read the row c and computed r for it, the
\* call failing at `at`: every `?` returns early and drops the transaction,
\* which rolls it back; only a commit that succeeds stores r.
Committed(rows, c, r, at) ==
    IF at = "ok" THEN (rows \ {c}) \cup {r} ELSE rows

\* the row WHERE kana_char = id, NoRow when there is none
Persisted(rows, id) ==
    IF \E c \in rows : c.id = id THEN CHOOSE c \in rows : c.id = id ELSE NoRow

\* Mutant of MistakesAfter: every submitted id is recorded.
MistakesAfterAlways(mistakes, id, correct) == mistakes \cup {id}

\* if !payload.correct { app.cycle_mistakes.insert(card_id) }
MistakesAfter(mistakes, id, correct) ==
    IF correct THEN mistakes ELSE mistakes \cup {id}

\* Mutant of CursorAfter: the cursor moves whatever card was submitted.
CursorAfterAnyCard(cards, idx, id) ==
    IF idx < Len(cards) THEN idx + 1 ELSE idx

\* Mutant of CursorAfter: the cursor moves without looking at the batch.
CursorAfterUnchecked(cards, idx, id) == idx + 1

\* if let Some(card) = due_cards.get(current_card_index)
\*     { if card.id == payload.card_id { current_card_index += 1 } }
CursorAfter(cards, idx, id) ==
    IF idx < Len(cards) /\ cards[idx + 1].id = id THEN idx + 1 ELSE idx

\* Mutant of NeedsBatch: every request composes a batch.
NeedsBatchAlways(cards, idx) == TRUE

\* app.due_cards.is_empty() || app.current_card_index >= app.due_cards.len()
NeedsBatch(cards, idx) == cards = <<>> \/ idx >= Len(cards)

\* the card the quiz screen shows: the bounds are tested before indexing
CurrentItem ==
    IF current_card_index < Len(due_cards)
    THEN due_cards[current_card_index + 1]
    ELSE NoRow

\* App::start_quiz: a batch from get_next_batch, the cursor back at 0
StartQuiz ==
    /\ \E b \in Batches(progress, now) : due_cards' = b
    /\ current_card_index' = 0

\* GET /api/next_batch, under the Mutex; BatchResponse.cards is due_cards
ApiGetNextBatch ==
    /\ mutex = NoTask
    /\ IF NeedsBatch(due_cards, current_card_index)
       THEN StartQuiz
       ELSE UNCHANGED <<due_cards, current_card_index>>
    /\ batch' = due_cards'
    /\ fetched' = now
    /\ UNCHANGED <<progress, now, answers, growths, calls, cycle_mistakes,
                   submitted, mutex, tasks, twin>>
    /\ UNCHANGED tuiVars

\* the ids a client may submit: the kana of the table and an unknown one
SubmitIds == {1, 2, 3}

\* /api/submit requests a behaviour may contain
MaxSubmits == 3

\* POST /api/submit {card_id, correct}, under the Mutex, update_card ending
\* at `at`
ApiSubmit(id, correct, at) ==
    LET c == Persisted(progress, id)
    IN  /\ mutex = NoTask
        /\ answers < MaxSubmits
        /\ (c.id = id /\ c.state = Review /\ correct) => growths < MaxGrowths
        /\ cycle_mistakes' = MistakesAfter(cycle_mistakes, id, correct)
        /\ current_card_index' = CursorAfter(due_cards, current_card_index, id)
        /\ IF c = NoRow \/ at \in {"begin", "select"}
           THEN /\ progress' = progress
                /\ growths' = growths
                /\ submitted' = [id |-> id, correct |-> correct, ok |-> FALSE,
                                 before |-> c, cursor |-> current_card_index,
                                 time |-> now, ret |-> 0]
           ELSE \E fz \in FuzzDrawn(c, correct) :
                  LET r == UpdatedRow(c, correct, now, fz)
                  IN  /\ progress' = Committed(progress, c, r, at)
                      /\ growths' = IF c.state = Review /\ correct /\ at = "ok"
                                    THEN growths + 1 ELSE growths
                      /\ submitted' = [id |-> id, correct |-> correct,
                                       ok |-> (at = "ok"), before |-> c,
                                       cursor |-> current_card_index,
                                       time |-> now,
                                       ret |-> IF at = "ok" THEN r.interval ELSE 0]
        /\ answers' = answers + 1
        /\ UNCHANGED <<now, calls, batch, fetched, due_cards, mutex, tasks, twin>>
        /\ UNCHANGED tuiVars

\* the table the API specification starts from: a New row and a due Review row
ApiPool == {DefaultRow(1), Answered(2, Review, 86400, 86400, 0, FALSE)}

InitApi ==
    /\ progress = ApiPool
    /\ now = Epoch
    /\ answers = 0
    /\ growths = 0
    /\ calls = <<>>
    /\ batch = <<>>
    /\ fetched = NoReview
    /\ AppNew
    /\ TuiOff

NextApi ==
    \/ ApiGetNextBatch
    \/ \E id \in SubmitIds, correct \in BOOLEAN, at \in Outcomes :
           ApiSubmit(id, correct, at)

SpecApi == InitApi /\ [][NextApi]_vars

-----------------------------------------------------------------------------
(* Properties of the API *)

\* a step that handles one /api/submit request
SubmitStep == answers' # answers

\* a step that handles one /api/next_batch request
BatchStep == answers' = answers /\ now' = now /\ tasks' = tasks

\* C11 as stated: a submit leaves current_card_index as it was.
C11_Original ==
    [][SubmitStep => current_card_index' = current_card_index]_vars

\* C11: a submit moves current_card_index by exactly one when the id
\* submitted is the id of the card at the cursor, and leaves it as it was
\* otherwise (no card at the cursor, or another card's id).
C11_AdvancesOnCurrentCard ==
    [][SubmitStep =>
         current_card_index' =
             IF CurrentItem # NoRow /\ CurrentItem.id = submitted'.id
             THEN current_card_index + 1
             ELSE current_card_index]_vars

\* a submit of the card at the cursor has moved the cursor
C11_Witness ==
    /\ submitted # NoSubmit
    /\ submitted.cursor < Len(due_cards)
    /\ due_cards[submitted.cursor + 1].id = submitted.id
    /\ current_card_index = submitted.cursor + 1

\* C12: when the card update of a submit fails, the cursor after the submit
\* equals the cursor before it.
C12_CursorKeptOnFailure ==
    [][(SubmitStep /\ ~submitted'.ok) =>
           current_card_index' = current_card_index]_vars

\* C13: an update_card call that fails leaves the table as it was, and the
\* same answer submitted again at once, succeeding, writes the row a first
\* successful call would have written.
C13_FailedUpdateIsRetrySafe ==
    [][SubmitStep =>
         /\ ~submitted'.ok => progress' = progress
         /\ ( /\ submitted # NoSubmit
              /\ ~submitted.ok
              /\ submitted'.ok
              /\ submitted'.id = submitted.id
              /\ submitted'.correct = submitted.correct
              /\ submitted'.time = submitted.time ) =>
                \E fz \in FuzzDrawn(submitted.before, submitted.correct) :
                    Persisted(progress', submitted.id) =
                        UpdatedRow(submitted.before, submitted.correct,
                                   submitted.time, fz)]_vars

\* an update of a row of the table has failed
C13_Witness ==
    /\ submitted # NoSubmit
    /\ ~submitted.ok
    /\ submitted.before # NoRow
    /\ Persisted(progress, submitted.id) = submitted.before

\* C19: current_card_index never exceeds the length of the batch, and with
\* the cursor at or past the end the current item is absent.
C19_CursorInBounds ==
    /\ current_card_index >= 0
    /\ current_card_index <= Len(due_cards)
    /\ current_card_index >= Len(due_cards) => CurrentItem = NoRow

\* the last card of a batch has been consumed
C19_Witness ==
    /\ due_cards # <<>>
    /\ current_card_index = Len(due_cards)
    /\ CurrentItem = NoRow

\* no card of the batch is left to answer
Exhausted == Len(due_cards) = 0 \/ current_card_index >= Len(due_cards)

\* C20: the batch changes only in a batch request made with the batch empty
\* or the cursor at or past its end; a submit never changes it, and a batch
\* request made while cards remain returns the batch as it is and leaves
\* the cursor.
C20_BatchOnlyOnRequest ==
    [][ /\ due_cards' # due_cards => (BatchStep /\ Exhausted)
        /\ SubmitStep => due_cards' = due_cards
        /\ (BatchStep /\ ~Exhausted) =>
              /\ due_cards' = due_cards
              /\ batch' = due_cards
              /\ current_card_index' = current_card_index ]_vars

\* the last card was consumed and the batch served is still the one held
C20_Witness ==
    /\ submitted # NoSubmit
    /\ due_cards # <<>>
    /\ current_card_index >= Len(due_cards)
    /\ batch = due_cards
    /\ \E i \in 1 .. Len(due_cards) :
           Persisted(progress, due_cards[i].id) # due_cards[i]

-----------------------------------------------------------------------------
(* Two /api/submit requests at once *)

\* Mutant of MutexFree: the handler does not wait for the Mutex.
MutexFreeAlways(m) == TRUE

\* state.app.lock().await returns once no other request holds the guard
MutexFree(m) == m = NoTask

\* let mut app = state.app.lock().await: the request of task k enters the
\* handler with its payload
SubmitLock(k, id, correct) ==
    /\ tasks[k].pc = "idle"
    /\ MutexFree(mutex)
    /\ mutex' = k
    /\ tasks' = [tasks EXCEPT ![k] = [pc |-> "locked", id |-> id, correct |-> correct]]
    /\ UNCHANGED <<progress, now, answers, growths, calls, batch, fetched,
                   due_cards, current_card_index, cycle_mistakes, submitted, twin>>
    /\ UNCHANGED tuiVars

\* the handler up to update_card's SELECT: cycle_mistakes and the cursor,
\* then pool.begin and the read of the row; the transaction's snapshot of
\* the table is the table as it is now
SubmitRead(k) ==
    LET rq == tasks[k]
    IN  /\ rq.pc = "locked"
        /\ Persisted(progress, rq.id) # NoRow
        /\ cycle_mistakes' = MistakesAfter(cycle_mistakes, rq.id, rq.correct)
        /\ current_card_index' = CursorAfter(due_cards, current_card_index, rq.id)
        /\ tasks' = [tasks EXCEPT ![k] =
                        [pc |-> "read", id |-> rq.id, correct |-> rq.correct,
                         card |-> Persisted(progress, rq.id),
                         snapshot |-> progress]]
        /\ UNCHANGED <<progress, now, answers, growths, calls, batch, fetched,
                       due_cards, submitted, mutex, twin>>
        /\ UNCHANGED tuiVars

\* update_card from the computation to tx.commit, and the end of the
\* handler, which drops the guard.  The journal is WAL (db.rs:68): a
\* transaction that has read cannot write once another one has committed
\* since its snapshot; the UPDATE then fails and the handler answers 500.
SubmitWrite(k) ==
    LET rq == tasks[k]
    IN  /\ rq.pc = "read"
        /\ \E fz \in FuzzDrawn(rq.card, rq.correct) :
             LET r  == UpdatedRow(rq.card, rq.correct, now, fz)
                 at == IF rq.snapshot = progress THEN "ok" ELSE "update"
             IN  /\ progress' = Committed(progress, Persisted(progress, rq.id), r, at)
                 /\ tasks' = [tasks EXCEPT ![k] =
                                 [pc |-> "done", id |-> rq.id,
                                  correct |-> rq.correct, ok |-> (at = "ok")]]
                 /\ submitted' = [id |-> rq.id, correct |-> rq.correct,
                                  ok |-> (at = "ok"), before |-> rq.card,
                                  cursor |-> current_card_index, time |-> now,
                                  ret |-> IF at = "ok" THEN r.interval ELSE 0]
        /\ mutex' = IF mutex = k THEN NoTask ELSE mutex
        /\ answers' = answers + 1
        /\ UNCHANGED <<now, growths, calls, batch, fetched, due_cards,
                       current_card_index, cycle_mistakes, twin>>
        /\ UNCHANGED tuiVars

\* the instant both requests arrive: the stored rows were last answered at 0
ConcTime == 86400

\* One stored row, served as a batch of one card to a client that then
\* sends two requests for it, one per task.
InitConc ==
    /\ progress \in {{r} : r \in StoredRows}
    /\ now = ConcTime
    /\ answers = 0
    /\ growths = 0
    /\ calls = <<>>
    /\ batch = <<>>
    /\ fetched = NoReview
    /\ due_cards = <<CHOOSE r \in progress : TRUE>>
    /\ current_card_index = 0
    /\ cycle_mistakes = {}
    /\ submitted = NoSubmit
    /\ mutex = NoTask
    /\ tasks = [k \in Tasks |-> Idle]
    /\ twin = NoTwin
    /\ TuiOff

NextConc ==
    \/ \E k \in Tasks, correct \in BOOLEAN : SubmitLock(k, due_cards[1].id, correct)
    \/ \E k \in Tasks : SubmitRead(k)
    \/ \E k \in Tasks : SubmitWrite(k)

SpecConc == InitConc /\ [][NextConc]_vars

\* the rows two updates of the row c, answered a then b, may leave
Serial(c, a, b, t) ==
    UNION { {UpdatedRow(r, b, t, f2) : f2 \in FuzzDrawn(r, b)} :
              r \in {UpdatedRow(c, a, t, f1) : f1 \in FuzzDrawn(c, a)} }

\* the tasks inside the handler's read-compute-write
InHandler == {k \in Tasks : tasks[k].pc \in {"locked", "read"}}

\* C14: two submits for the same card are serialized: one task at a time is
\* between taking the guard and its write, a task that has read holds the
\* row as persisted, and once both are done the row is the result of the two
\* updates applied one after the other in some order.
C14_SubmitsSerialized ==
    /\ Cardinality(InHandler) <= 1
    /\ \A k \in Tasks :
           tasks[k].pc = "read" => tasks[k].card = Persisted(progress, tasks[k].id)
    /\ (\A k \in Tasks : tasks[k].pc = "done") =>
           /\ \A k \in Tasks : tasks[k].ok
           /\ \E j, k \in Tasks :
                  /\ j # k
                  /\ Persisted(progress, due_cards[1].id) \in
                         Serial(due_cards[1], tasks[j].correct, tasks[k].correct, now)

\* both requests are done and the row has moved twice
C14_Witness ==
    /\ \A k \in Tasks : tasks[k].pc = "done" /\ tasks[k].ok
    /\ answers = 2
    /\ Persisted(progress, due_cards[1].id) \notin
           {UpdatedRow(due_cards[1], b, now, fz) : b \in BOOLEAN, fz \in FuzzChoices \cup {FuzzDen}}

-----------------------------------------------------------------------------
(* The update computation, run twice side by side *)

\* stabilities and difficulties of the Review rows compared
TwinStabilities == {30, 100, 86400, 100000}
TwinDifficulties == {10, 50, 100}

TwinReview ==
    { [DefaultRow(k) EXCEPT !.state = Review, !.stability = Secs(s),
                            !.difficulty = d, !.interval = iv,
                            !.last_review = 0] :
        k \in KanaData, s \in TwinStabilities, d \in TwinDifficulties,
        iv \in {86400, 100000} }

TwinRows == StoredRows \cup TwinReview

\* the rows run beside c: c itself and, for a Review row, the rows that
\* differ from it in a larger stability only
Beside(c) ==
    {c} \cup IF c.state = Review /\ c.stability.e = 0
             THEN {[c EXCEPT !.stability = Secs(s)] :
                     s \in {x \in TwinStabilities : x > c.stability.m}}
             ELSE {}

\* the instants of the two runs: the row answered early, on time, late
TwinTimes(c) == {Max(c.interval, 2) \div 2, Max(c.interval, 1), 2 * Max(c.interval, 1)}

\* update_card's computation on the rows c1 and c2 with the same answer at
\* the same instant, each run drawing its own fuzz factor; one comparison
\* per behaviour
TwinUpdate ==
    /\ twin = NoTwin
    /\ \E c1 \in TwinRows, correct \in BOOLEAN :
         \E c2 \in Beside(c1), t \in TwinTimes(c1),
            fz1 \in FuzzDrawn(c1, correct), fz2 \in FuzzDrawn(c1, correct) :
              twin' = [c1 |-> c1, c2 |-> c2, correct |-> correct, t |-> t,
                       fz1 |-> fz1, fz2 |-> fz2,
                       r1 |-> UpdatedRow(c1, correct, t, fz1),
                       r2 |-> UpdatedRow(c2, correct, t, fz2)]
    /\ UNCHANGED <<progress, now, answers, growths, calls, batch, fetched,
                   due_cards, current_card_index, cycle_mistakes, submitted,
                   mutex, tasks>>
    /\ UNCHANGED tuiVars

NextTwin == TwinUpdate

SpecTwin == Init /\ [][NextTwin]_vars

\* two runs on the same persisted card
SameCard == twin # NoTwin /\ twin.c1 = twin.c2

\* the runs are of a correct answer to a Review card, the case that draws
\* a fuzz factor
Fuzzed == twin.c1.state = Review /\ twin.correct

\* C15 as stated: two runs on the same card with the same (correct, now)
\* agree on stability, difficulty, state, step, interval and lapses.
C15_Original ==
    SameCard =>
        /\ twin.r1.stability = twin.r2.stability
        /\ twin.r1.difficulty = twin.r2.difficulty
        /\ twin.r1.state = twin.r2.state
        /\ twin.r1.step = twin.r2.step
        /\ twin.r1.interval = twin.r2.interval
        /\ twin.r1.lapses = twin.r2.lapses

\* the interval lies within the fuzz range around 1.6 times the stability
\* s, or is the floor of 60
WithinFuzz(i, s) ==
    /\ i >= Max(60, FuzzedInterval(s, FuzzDen - 500))
    /\ i <= Max(60, FuzzedInterval(s, FuzzDen + 500))

\* C15: two runs on the same card with the same (correct, now) agree on
\* stability, difficulty, state, step and lapses; they agree on interval too
\* unless the answer is a correct one to a Review card, where each interval
\* is 1.6 times the new stability within the 5% of the fuzz factor.
C15_DeterministicButFuzz ==
    SameCard =>
        /\ twin.r1.stability = twin.r2.stability
        /\ twin.r1.difficulty = twin.r2.difficulty
        /\ twin.r1.state = twin.r2.state
        /\ twin.r1.step = twin.r2.step
        /\ twin.r1.lapses = twin.r2.lapses
        /\ ~Fuzzed => twin.r1.interval = twin.r2.interval
        /\ Fuzzed => /\ WithinFuzz(twin.r1.interval, twin.r1.stability)
                     /\ WithinFuzz(twin.r2.interval, twin.r2.stability)

\* two runs on the same Review card drew different fuzz factors
C15_Witness ==
    /\ SameCard
    /\ Fuzzed
    /\ twin.fz1 # twin.fz2
    /\ twin.r1.interval # twin.r2.interval
    /\ twin.r1.stability = twin.r2.stability

\* the last call answered the scenario's card correctly, on time: a Review
\* card of stability 100000, difficulty 5, interval 100000, last answered
\* 100000 s before
Scenario16 ==
    /\ Called
    /\ Last.correct
    /\ Last.before.state = Review
    /\ StabilityIs(Last.before.stability, 100000)
    /\ Last.before.difficulty = 50
    /\ Last.before.interval = 100000
    /\ Last.actual = 100000

\* C16 as stated: the new stability is 200000 and the new interval lies in
\* [304000 * 0.95, 304000 * 1.05].
C16_Original ==
    Scenario16 =>
        /\ StabilityIs(Written.stability, 200000)
        /\ Written.interval >= 288800
        /\ Written.interval <= 319200

\* C16: the new stability is 200000 and the new interval lies in
\* [320000 * 0.95, 320000 * 1.05] = [304000, 336000].
C16_ScenarioInterval ==
    Scenario16 =>
        /\ StabilityIs(Written.stability, 200000)
        /\ Written.interval >= 304000
        /\ Written.interval <= 336000

\* the scenario's call with the fuzz factor 1.0
C16_Witness ==
    /\ Scenario16
    /\ Written.interval = 320000
    /\ Written.state = Review

\* two Review cards that differ in stability at most, answered correctly at
\* the same instant with the same fuzz factor
SameButStability ==
    /\ twin # NoTwin
    /\ Fuzzed
    /\ twin.c2 \in Beside(twin.c1)
    /\ twin.fz1 = twin.fz2

\* C17: a correct answer to a Review card gives an interval of at least 60,
\* and of two such cards that differ in stability only, with the same delay
\* and fuzz factor, the one of larger stability gets no smaller an interval.
C17_IntervalMonotone ==
    /\ (twin # NoTwin /\ Fuzzed) =>
           twin.r1.interval >= 60 /\ twin.r2.interval >= 60
    /\ SameButStability => twin.r1.interval <= twin.r2.interval

\* a larger stability gave a longer interval while the smaller one was
\* raised to the floor
C17_Witness ==
    /\ SameButStability
    /\ twin.c1.stability.m < twin.c2.stability.m
    /\ twin.r1.interval = 60
    /\ twin.r2.interval > 60

-----------------------------------------------------------------------------
(* The size of a batch *)

\* the rows of the batch, as a set
BatchRows == {batch[i] : i \in 1 .. Len(batch)}

\* C18: get_next_batch returns at most batch_size cards, and from a table of
\* fewer rows than that it returns every row, each once.
C18_BatchSizeBounded ==
    Fetched =>
        /\ Len(batch) <= BatchSize
        /\ Cardinality(progress) < BatchSize =>
               /\ BatchRows = progress
               /\ Len(batch) = Cardinality(progress)

\* a table of fewer than 20 rows with more than 15 of them due, all returned:
\* the due query stops at 15, the backfill adds the rest
C18_Witness ==
    /\ Fetched
    /\ Cardinality(progress) < BatchSize
    /\ Cardinality({c \in progress : IsDue(c, fetched)}) > LimitDue
    /\ BatchRows = progress

-----------------------------------------------------------------------------
(* The mistake set; wrong answers while learning; relearning *)

\* C21: a submit with correct = false adds the submitted id to
\* cycle_mistakes and nothing else; a submit with correct = true leaves
\* cycle_mistakes as it was.
C21_MistakesRecorded ==
    [][SubmitStep =>
         cycle_mistakes' = IF submitted'.correct
                           THEN cycle_mistakes
                           ELSE cycle_mistakes \cup {submitted'.id}]_vars

\* a wrong answer is in the set and a right one, to another card, is not
C21_Witness ==
    /\ submitted # NoSubmit
    /\ submitted.correct
    /\ submitted.id \notin cycle_mistakes
    /\ cycle_mistakes # {}

\* C28: a wrong answer to a card in New or Learning, at any step, leaves it
\* in Learning with step 0 and interval 60, its stability, difficulty and
\* lapses as they were.
C28_WrongWhileLearning ==
    ( /\ Called
      /\ ~Last.correct
      /\ Last.before.state \in {New, Learning} ) =>
        /\ Written.state = Learning
        /\ Written.step = 0
        /\ Written.interval = 60
        /\ Last.ret = 60
        /\ Written.stability = Last.before.stability
        /\ Written.difficulty = Last.before.difficulty
        /\ Written.lapses = Last.before.lapses

\* a Learning card past its first step was answered wrong
C28_Witness ==
    /\ Called
    /\ ~Last.correct
    /\ Last.before.state = Learning
    /\ Last.before.step >= 2
    /\ Written.step = 0
    /\ Written.state = Learning

\* floor(s * 1.6) for a stability s, floored at 60
RegraduationInterval(s) ==
    LET i == (s.m * 16) \div (10 * (2 ^ s.e))
    IN  IF i < 60 THEN 60 ELSE i

\* C29: a correct answer to a Relearning card moves it to Review with
\* interval max(60, floor(stability * 1.6)), whatever fuzz factor is at hand;
\* a wrong answer leaves it in Relearning with interval 600; stability and
\* lapses stay as they were in both cases.
C29_Relearning ==
    ( /\ Called
      /\ Last.before.state = Relearning ) =>
        /\ Written.stability = Last.before.stability
        /\ Written.lapses = Last.before.lapses
        /\ Last.correct =>
               /\ Written.state = Review
               /\ Written.interval = RegraduationInterval(Last.before.stability)
        /\ ~Last.correct =>
               /\ Written.state = Relearning
               /\ Written.interval = 600
        /\ Last.ret = Written.interval

\* a Relearning card of stability 86400 has re-graduated with interval 138240
C29_Witness ==
    /\ Called
    /\ Last.before.state = Relearning
    /\ Last.correct
    /\ StabilityIs(Last.before.stability, 86400)
    /\ Written.state = Review
    /\ Written.interval = 138240

-----------------------------------------------------------------------------
(* Batches from a table crowded with cards being learned *)

\* Tables with about as many due Learning and Relearning rows as the due
\* query returns, or more, beside due Review rows and New rows.
CrowdedPools ==
    { Pool(nl, nx, nr, nn, 0, 0) :
        nl \in {12, 17}, nx \in {0, 2}, nr \in {0, 4}, nn \in {0, 2, 12} }

InitCrowded ==
    /\ progress \in CrowdedPools
    /\ now = Epoch
    /\ answers = 0
    /\ growths = 0
    /\ calls = <<>>
    /\ batch = <<>>
    /\ fetched = NoReview
    /\ AppNew
    /\ TuiOff

SpecCrowded == InitCrowded /\ [][NextBatch]_vars

\* the rows of the table due when the batch was fetched, in the states sts
DueIn(sts) == {c \in progress : c.state \in sts /\ IsDue(c, fetched)}

\* C30: a batch that holds a due Review card holds every due Learning and
\* Relearning card of the table.
C30_LearningBeforeReview ==
    (Fetched /\ BatchRows \cap DueIn({Review}) # {}) =>
        DueIn({Learning, Relearning}) \subseteq BatchRows

\* more cards being learned are due than the due query returns, and the
\* batch holds them all and a due Review card too
C30_Witness ==
    /\ Fetched
    /\ Cardinality(DueIn({Learning, Relearning})) > LimitDue
    /\ BatchRows \cap DueIn({Review}) # {}
    /\ DueIn({Learning, Relearning}) \subseteq BatchRows

-----------------------------------------------------------------------------
(* srs.rs: the SuperMemo-2 calculation of the terminal quiz *)

\* easiness_factor is counted in hundredths (2.5 is 250), interval in days,
\* next_review_date in seconds.
Day == 86400

\* UserProgress::new: Default::default() but the kana
NewProgress(t) ==
    [ easiness_factor  |-> 250,
      interval         |-> 0,
      repetitions      |-> 0,
      next_review_date |-> t ]

\* 0.1 - (5.0 - grade) * (0.08 + (5.0 - grade) * 0.02), in hundredths
EfDelta(grade) == 10 - (5 - grade) * (8 + (5 - grade) * 2)

\* (interval as f64 * easiness_factor).round() as u64
Rounded(interval, ef) == (interval * ef + 50) \div 100

\* Mutant of CalculateNewProgress: the easiness factor has no floor.
CalculateNewProgressNoFloor(p, grade, t) ==
    LET passed == grade >= 3
        iv  == IF ~passed THEN 1
               ELSE IF p.repetitions = 0 THEN 1
               ELSE IF p.repetitions = 1 THEN 6
               ELSE Rounded(p.interval, p.easiness_factor)
    IN  [ easiness_factor  |-> p.easiness_factor + EfDelta(grade),
          interval         |-> iv,
          repetitions      |-> IF passed THEN p.repetitions + 1 ELSE 0,
          next_review_date |-> t + iv * Day ]

\* Mutant of CalculateNewProgress: the cast truncates, `.round()` is missing.
CalculateNewProgressTruncates(p, grade, t) ==
    LET passed == grade >= 3
        iv  == IF ~passed THEN 1
               ELSE IF p.repetitions = 0 THEN 1
               ELSE IF p.repetitions = 1 THEN 6
               ELSE (p.interval * p.easiness_factor) \div 100
        ef0 == p.easiness_factor + EfDelta(grade)
    IN  [ easiness_factor  |-> IF ef0 < 130 THEN 130 ELSE ef0,
          interval         |-> iv,
          repetitions      |-> IF passed THEN p.repetitions + 1 ELSE 0,
          next_review_date |-> t + iv * Day ]

\* Mutant of CalculateNewProgress: a failing grade leaves the interval.
CalculateNewProgressKeepsInterval(p, grade, t) ==
    LET passed == grade >= 3
        iv  == IF ~passed THEN p.interval
               ELSE IF p.repetitions = 0 THEN 1
               ELSE IF p.repetitions = 1 THEN 6
               ELSE Rounded(p.interval, p.easiness_factor)
        ef0 == p.easiness_factor + EfDelta(grade)
    IN  [ easiness_factor  |-> IF ef0 < 130 THEN 130 ELSE ef0,
          interval         |-> iv,
          repetitions      |-> IF passed THEN p.repetitions + 1 ELSE 0,
          next_review_date |-> t + iv * Day ]

\* calculate_new_progress(current, grade) at the instant t
CalculateNewProgress(p, grade, t) ==
    LET passed == grade >= 3
        iv  == IF ~passed THEN 1
               ELSE IF p.repetitions = 0 THEN 1
               ELSE IF p.repetitions = 1 THEN 6
               ELSE Rounded(p.interval, p.easiness_factor)
        ef0 == p.easiness_factor + EfDelta(grade)
    IN  [ easiness_factor  |-> IF ef0 < 130 THEN 130 ELSE ef0,
          interval         |-> iv,
          repetitions      |-> IF passed THEN p.repetitions + 1 ELSE 0,
          next_review_date |-> t + iv * Day ]

\* Grade: 0-5
Grades == 0 .. 5

\* the records the calculation is run on: the easiness factors it produces
\* (1.3 is the floor, 2.5 the default), repetitions and intervals at will
Sm2Inputs ==
    { [ easiness_factor  |-> ef,
        interval         |-> iv,
        repetitions      |-> rp,
        next_review_date |-> 0 ] :
        ef \in {130, 170, 250, 260}, iv \in {0, 1, 6, 10, 16}, rp \in {0, 1, 2, 3, 5} }

\* one call of calculate_new_progress per behaviour
Sm2Run ==
    /\ sm2 = NoSm2
    /\ \E p \in Sm2Inputs, grade \in Grades :
         sm2' = [grade |-> grade, current |-> p,
                 result |-> CalculateNewProgress(p, grade, now)]
    /\ UNCHANGED <<progress, now, answers, growths, calls, batch, fetched,
                   due_cards, current_card_index, cycle_mistakes, submitted,
                   mutex, tasks, twin, app, key_event, client>>

NextSm2 == Sm2Run

SpecSm2 == Init /\ [][NextSm2]_vars

Calculated == sm2 # NoSm2

\* C26: a failing grade (below 3) sets repetitions to 0 and interval to 1
\* whatever they were, and does not increase the easiness factor.
C26_FailingGradeResets ==
    (Calculated /\ sm2.grade < 3) =>
        /\ sm2.result.repetitions = 0
        /\ sm2.result.interval = 1
        /\ sm2.result.easiness_factor <= sm2.current.easiness_factor

\* the call of test_sm2_incorrect: interval 10, repetitions 5, grade 0
C26_Witness ==
    /\ Calculated
    /\ sm2.grade = 0
    /\ sm2.current.interval = 10
    /\ sm2.current.repetitions = 5
    /\ sm2.current.easiness_factor = 250
    /\ sm2.result.interval = 1
    /\ sm2.result.easiness_factor = 170

\* C27: a passing grade (3 or more) adds exactly 1 to repetitions and sets
\* interval to 1 from repetitions 0, to 6 from repetitions 1, and to the
\* previous interval times the previous easiness factor, rounded to the
\* nearest day, otherwise; grade 5 increases the easiness factor.
C27_PassingGradeAdvances ==
    (Calculated /\ sm2.grade >= 3) =>
        /\ sm2.result.repetitions = sm2.current.repetitions + 1
        /\ sm2.current.repetitions = 0 => sm2.result.interval = 1
        /\ sm2.current.repetitions = 1 => sm2.result.interval = 6
        /\ sm2.current.repetitions > 1 =>
               \* |100 * interval' - interval * ef| <= 50: the nearest day
               /\ 100 * sm2.result.interval - sm2.current.interval * sm2.current.easiness_factor <= 50
               /\ sm2.current.interval * sm2.current.easiness_factor - 100 * sm2.result.interval < 50
        /\ sm2.grade = 5 =>
               sm2.result.easiness_factor > sm2.current.easiness_factor

\* a third repetition at the default easiness: 1 day becomes round(2.5) = 3
C27_Witness ==
    /\ Calculated
    /\ sm2.grade = 5
    /\ sm2.current.repetitions = 2
    /\ sm2.current.interval = 1
    /\ sm2.current.easiness_factor = 250
    /\ sm2.result.interval = 3
    /\ sm2.result.repetitions = 3
    /\ sm2.result.easiness_factor = 260

-----------------------------------------------------------------------------
(* app.rs: the terminal quiz *)

\* A String is a sequence of characters.  The characters typed: a letter in
\* both cases, a second letter, whitespace.
Alphabet == {"n", "N", "a", " "}

\* char::is_whitespace
IsWhitespace(ch) == ch = " "

\* char::to_lowercase
LowerChar(ch) == IF ch = "N" THEN "n" ELSE ch

RECURSIVE TrimStart(_)
TrimStart(s) ==
    IF s # <<>> /\ IsWhitespace(Head(s)) THEN TrimStart(Tail(s)) ELSE s

RECURSIVE TrimEnd(_)
TrimEnd(s) ==
    IF s # <<>> /\ IsWhitespace(s[Len(s)])
    THEN TrimEnd(SubSeq(s, 1, Len(s) - 1))
    ELSE s

\* str::trim
Trim(s) == TrimEnd(TrimStart(s))

\* str::to_lowercase
ToLowercase(s) == [i \in 1 .. Len(s) |-> LowerChar(s[i])]

\* The kana of the model, as models::Kana: a hiragana with two accepted
\* romaji and a katakana with one.
Kanas ==
    { [character |-> "hiragana n",  romaji |-> << <<"n">>, <<"n", "n">> >>,
       category |-> "Hiragana"],
      [character |-> "katakana na", romaji |-> << <<"n", "a">> >>,
       category |-> "Katakana"] }

Characters == {k.character : k \in Kanas}

\* KanaSet::get_data
GetData(kana_set) ==
    IF kana_set = "Mixed" THEN Kanas
    ELSE {k \in Kanas : k.category = kana_set}

\* no current_kana; no entry in user_progress
NoKana == [character |-> "None"]
NoProgress == [repetitions |-> 0 - 1]

\* calculate_due_items: the kana of every set that are due or new
DueItems(user_progress, t) ==
    { k.character : k \in
        { k \in GetData("Mixed") :
            \/ user_progress[k.character] = NoProgress
            \/ user_progress[k.character].next_review_date <= t } }

\* App::new, user_progress being what load_progress read from progress.json
NewApp(user_progress, t) ==
    [ current_screen |-> "Menu",
      kana_set       |-> "Hiragana",
      current_kana   |-> NoKana,
      user_input     |-> <<>>,
      feedback       |-> "None",
      score          |-> 0,
      total_attempts |-> 0,
      streak         |-> 0,
      exit           |-> FALSE,
      pool           |-> {},
      menu_selection |-> 0,
      user_progress  |-> user_progress,
      due_items      |-> DueItems(user_progress, t) ]

\* next_question: a random kana of the pool, if there is one
NextQuestion(a) ==
    { [a EXCEPT !.current_kana = k, !.user_input = <<>>, !.feedback = "None"] :
        k \in IF a.pool = {} THEN {a.current_kana} ELSE a.pool }

\* Mutant of QuizPool: no fallback to the kana scheduled for later.
QuizPoolNoFallback(kana_set, user_progress, t) ==
    { k \in GetData(kana_set) :
        \/ user_progress[k.character] = NoProgress
        \/ user_progress[k.character].next_review_date <= t }

\* start_quiz's pool: the due and the new kana of the set, or the kana to
\* review later when there are neither
QuizPool(kana_set, user_progress, t) ==
    LET all_kanas    == GetData(kana_set)
        due          == {k \in all_kanas :
                           /\ user_progress[k.character] # NoProgress
                           /\ user_progress[k.character].next_review_date <= t}
        new_items    == {k \in all_kanas : user_progress[k.character] = NoProgress}
        review_later == all_kanas \ (due \cup new_items)
    IN  IF due \cup new_items = {} /\ review_later # {}
        THEN review_later
        ELSE due \cup new_items

\* start_quiz
StartQuizScreen(a, t) ==
    LET kana_set == IF a.menu_selection = 1 THEN "Hiragana"
                    ELSE IF a.menu_selection = 2 THEN "Katakana"
                    ELSE "Mixed"
    IN  NextQuestion([a EXCEPT !.kana_set = kana_set,
                               !.pool = QuizPool(kana_set, a.user_progress, t),
                               !.score = 0,
                               !.total_attempts = 0,
                               !.streak = 0,
                               !.current_screen = "Quiz"])

\* Mutant of IsCorrect: str::contains, a substring test.
IsCorrectSubstring(romaji, user_input) ==
    LET input == ToLowercase(Trim(user_input))
    IN  \E i \in 1 .. Len(romaji) :
          \E o \in 0 .. (Len(romaji[i]) - Len(input)) :
            \A q \in 1 .. Len(input) : romaji[i][o + q] = input[q]

\* kana.romaji.contains(&self.user_input.trim().to_lowercase())
IsCorrect(romaji, user_input) ==
    LET input == ToLowercase(Trim(user_input))
    IN  \E i \in 1 .. Len(romaji) : romaji[i] = input

\* user_progress.entry(..).or_insert_with(UserProgress::new), then
\* calculate_new_progress and insert
Graded(user_progress, character, grade, t) ==
    LET current == IF user_progress[character] = NoProgress
                   THEN NewProgress(t)
                   ELSE user_progress[character]
    IN  [user_progress EXCEPT ![character] = CalculateNewProgress(current, grade, t)]

\* Mutant of CheckAnswer: a wrong answer leaves the streak.
CheckAnswerKeepsStreak(a, t) ==
    IF a.current_kana = NoKana THEN a
    ELSE IF IsCorrect(a.current_kana.romaji, a.user_input)
    THEN [a EXCEPT !.total_attempts = a.total_attempts + 1,
                   !.feedback = "True",
                   !.score = a.score + 1,
                   !.streak = a.streak + 1,
                   !.user_progress = Graded(a.user_progress, a.current_kana.character, 5, t)]
    ELSE [a EXCEPT !.total_attempts = a.total_attempts + 1,
                   !.feedback = "False",
                   !.user_progress = Graded(a.user_progress, a.current_kana.character, 0, t)]

\* check_answer
CheckAnswer(a, t) ==
    IF a.current_kana = NoKana THEN a
    ELSE IF IsCorrect(a.current_kana.romaji, a.user_input)
    THEN [a EXCEPT !.total_attempts = a.total_attempts + 1,
                   !.feedback = "True",
                   !.score = a.score + 1,
                   !.streak = a.streak + 1,
                   !.user_progress = Graded(a.user_progress, a.current_kana.character, 5, t)]
    ELSE [a EXCEPT !.total_attempts = a.total_attempts + 1,
                   !.feedback = "False",
                   !.streak = 0,
                   !.user_progress = Graded(a.user_progress, a.current_kana.character, 0, t)]

\* Mutant of MenuDown: the menu wraps after its third entry.
MenuDownThreeEntries(sel) == IF sel < 2 THEN sel + 1 ELSE 0

\* KeyCode::Down in the menu
MenuDown(sel) == IF sel < 3 THEN sel + 1 ELSE 0

\* KeyCode::Up in the menu
MenuUp(sel) == IF sel > 0 THEN sel - 1 ELSE 3

\* The number of answers checked in a run.
MaxChecks == 2

\* The answers typed: accepted romaji, alone and with other case and
\* whitespace around or inside them, part of a romaji, and whitespace only.
\* An answer is typed one character at a time, so each of its beginnings is
\* an input as well, the empty one included.
Answers ==
    { <<"n", "n">>, <<" ", "N", " ">>, <<"N", "a", " ">>, <<"n", " ", "a">>,
      <<"a">>, <<" ", " ">> }

Typed == UNION {{SubSeq(s, 1, n) : n \in 0 .. Len(s)} : s \in Answers}

Key(code) == [code |-> code, ch |-> ""]
CharKey(c) == [code |-> "Char", ch |-> c]

\* The key events: the keys the handler matches and the characters typed.
Keys ==
    {Key("Up"), Key("Down"), Key("Enter"), Key("Esc"), Key("Backspace")}
        \cup {CharKey(c) : c \in Alphabet \cup {"q"}}

\* handle_key_event in the Menu screen
MenuKey(a, k, t) ==
    IF k = CharKey("q") \/ k = Key("Esc") THEN {[a EXCEPT !.exit = TRUE]}
    ELSE IF k = Key("Up")
    THEN {[a EXCEPT !.menu_selection = MenuUp(a.menu_selection)]}
    ELSE IF k = Key("Down")
    THEN {[a EXCEPT !.menu_selection = MenuDown(a.menu_selection)]}
    ELSE IF k = Key("Enter")
    THEN IF a.menu_selection = 0
         THEN {[a EXCEPT !.due_items = DueItems(a.user_progress, t),
                         !.current_screen = "Dashboard"]}
         ELSE StartQuizScreen(a, t)
    ELSE {a}

\* handle_key_event in the Dashboard screen
DashboardKey(a, k) ==
    IF k = Key("Esc") \/ k = CharKey("q")
    THEN {[a EXCEPT !.current_screen = "Menu"]}
    ELSE {a}

\* Mutant of QuizKey: Enter checks the answer whether or not feedback is shown.
QuizKeyEnterChecks(a, k, t) ==
    IF k = Key("Esc")
    THEN {[a EXCEPT !.current_screen = "Menu",
                    !.pool = {},
                    !.due_items = DueItems(a.user_progress, t)]}
    ELSE IF k = Key("Enter")
    THEN {CheckAnswer(a, t)}
    ELSE IF k = Key("Backspace")
    THEN IF a.feedback = "None" /\ a.user_input # <<>>
         THEN {[a EXCEPT !.user_input = SubSeq(a.user_input, 1, Len(a.user_input) - 1)]}
         ELSE {a}
    ELSE IF k.code = "Char"
    THEN IF a.feedback = "None"
         THEN {[a EXCEPT !.user_input = Append(a.user_input, k.ch)]}
         ELSE {a}
    ELSE {a}

\* handle_key_event in the Quiz screen
QuizKey(a, k, t) ==
    IF k = Key("Esc")
    THEN {[a EXCEPT !.current_screen = "Menu",
                    !.pool = {},
                    !.due_items = DueItems(a.user_progress, t)]}
    ELSE IF k = Key("Enter")
    THEN IF a.feedback # "None" THEN NextQuestion(a) ELSE {CheckAnswer(a, t)}
    ELSE IF k = Key("Backspace")
    THEN IF a.feedback = "None" /\ a.user_input # <<>>
         THEN {[a EXCEPT !.user_input = SubSeq(a.user_input, 1, Len(a.user_input) - 1)]}
         ELSE {a}
    ELSE IF k.code = "Char"
    THEN IF a.feedback = "None"
         THEN {[a EXCEPT !.user_input = Append(a.user_input, k.ch)]}
         ELSE {a}
    ELSE {a}

\* Whether the key makes the handler call check_answer.
Checks(a, k) ==
    a.current_screen = "Quiz" /\ k = Key("Enter") /\ a.feedback = "None"

\* Whether the key makes the handler call start_quiz.
Starts(a, k) ==
    a.current_screen = "Menu" /\ k = Key("Enter") /\ a.menu_selection # 0

\* App::handle_key_event, on the key events of the main loop.  A run starts
\* one quiz, checks MaxChecks answers and types the inputs of Typed.
HandleKeyEvent(k) ==
    /\ app # NoApp
    /\ ~app.exit
    /\ Starts(app, k) => app.current_kana = NoKana
    /\ Checks(app, k) => answers < MaxChecks
    /\ (app.current_screen = "Quiz" /\ k.code = "Char" /\ app.feedback = "None")
         => Append(app.user_input, k.ch) \in Typed
    /\ app' \in ( IF app.current_screen = "Menu" THEN MenuKey(app, k, now)
                  ELSE IF app.current_screen = "Dashboard" THEN DashboardKey(app, k)
                  ELSE QuizKey(app, k, now) )
    /\ key_event' = k
    /\ answers' = IF Checks(app, k) THEN answers + 1 ELSE answers
    /\ UNCHANGED <<progress, now, growths, calls, batch, fetched, due_cards,
                   current_card_index, cycle_mistakes, submitted, mutex, tasks,
                   twin, sm2, client>>

\* A stored entry of progress.json whose review falls at time t.
StoredProgress(t) ==
    [easiness_factor |-> 250, interval |-> 1, repetitions |-> 1,
     next_review_date |-> t]

\* What load_progress reads: nothing, every kana due, every kana scheduled
\* for later, or one kana scheduled for later and the other new.
StoredProgresses(t) ==
    { [c \in Characters |-> NoProgress],
      [c \in Characters |-> StoredProgress(t - Day)],
      [c \in Characters |-> StoredProgress(t + Day)],
      [c \in Characters |-> IF c = "hiragana n" THEN StoredProgress(t + Day)
                            ELSE NoProgress] }

InitQuiz ==
    /\ progress = {}
    /\ now = Epoch
    /\ answers = 0
    /\ growths = 0
    /\ calls = <<>>
    /\ batch = <<>>
    /\ fetched = NoReview
    /\ AppNew
    /\ key_event = NoKey
    /\ sm2 = NoSm2
    /\ client = NoClient
    /\ \E up \in StoredProgresses(Epoch) : app = NewApp(up, Epoch)

NextQuiz == \E k \in Keys : HandleKeyEvent(k)

SpecQuiz == InitQuiz /\ [][NextQuiz]_vars

\* A step of the handler that calls check_answer.
CheckStep == answers' = answers + 1

\* The input is the romaji r up to letter case and to whitespace before and
\* after it.
Matches(input, r) ==
    \E lo \in 1 .. Len(input) + 1 :
        /\ lo + Len(r) - 1 <= Len(input)
        /\ \A i \in 1 .. Len(input) :
             IF i < lo \/ i > lo + Len(r) - 1
             THEN IsWhitespace(input[i])
             ELSE LowerChar(input[i]) = r[i - lo + 1]

Accepted(kana, input) ==
    \E i \in 1 .. Len(kana.romaji) : Matches(input, kana.romaji[i])

\* C22: an answer is judged correct exactly when the input, trimmed of the
\* whitespace around it and lower-cased, is one of the accepted romaji of the
\* current kana: neither letter case nor whitespace around the answer changes
\* the verdict, and an input that is empty or all whitespace is never correct.
C22_VerdictIsTrimmedLowercasedMatch ==
    (app # NoApp /\ app.feedback # "None") =>
        /\ app.feedback = "True" <=> Accepted(app.current_kana, app.user_input)
        /\ app.feedback = "True" =>
             \E i \in 1 .. Len(app.user_input) : ~IsWhitespace(app.user_input[i])

\* An answer in capitals between spaces was judged correct.
C22_Witness ==
    /\ app # NoApp
    /\ app.feedback = "True"
    /\ app.user_input = <<" ", "N", " ">>
    /\ key_event = Key("Enter")

\* C23: check_answer on a current question adds 1 to total_attempts; when the
\* input matches it sets feedback to Some(true) and adds 1 to score and to
\* streak; when it does not it sets feedback to Some(false), leaves score and
\* sets streak to 0.
C23_CheckAnswerCounts ==
    [][ CheckStep =>
          /\ app.current_kana # NoKana
          /\ app'.total_attempts = app.total_attempts + 1
          /\ IF Accepted(app.current_kana, app.user_input)
             THEN /\ app'.feedback = "True"
                  /\ app'.score = app.score + 1
                  /\ app'.streak = app.streak + 1
             ELSE /\ app'.feedback = "False"
                  /\ app'.score = app.score
                  /\ app'.streak = 0 ]_vars

\* A wrong answer after a right one: the streak is back at 0, the score kept.
C23_Witness ==
    /\ app # NoApp
    /\ app.feedback = "False"
    /\ app.total_attempts = 2
    /\ app.score = 1
    /\ app.streak = 0
    /\ key_event = Key("Enter")

\* C24: start_quiz, under any menu selection and from any state of the
\* application (its stored progress all due, all new, all scheduled for later
\* or mixed), shows the Quiz screen with a current question drawn from a
\* non-empty pool, and with score, total_attempts and streak at 0.
C24_StartQuizSetsAQuestion ==
    app # NoApp =>
        \A sel \in 0 .. 3 :
            \A a \in StartQuizScreen([app EXCEPT !.menu_selection = sel], now) :
                /\ a.current_screen = "Quiz"
                /\ a.pool # {}
                /\ a.current_kana \in a.pool
                /\ a.score = 0
                /\ a.total_attempts = 0
                /\ a.streak = 0

\* A quiz was started with every kana scheduled for later.
C24_Witness ==
    /\ app # NoApp
    /\ key_event = Key("Enter")
    /\ app.current_screen = "Quiz"
    /\ app.total_attempts = 0
    /\ app.current_kana \in app.pool
    /\ \A c \in Characters :
         /\ app.user_progress[c] # NoProgress
         /\ app.user_progress[c].next_review_date > now

-----------------------------------------------------------------------------
(* update_card: lapses, the state machine, step *)

\* C34: lapses counts the incorrect answers given in Review: such an answer
\* adds 1, and every other update (any answer in New, Learning or Relearning,
\* a correct answer in Review) leaves lapses as it was, so lapses never
\* decreases.
C34_LapsesCountReviewMisses ==
    Called =>
        /\ Written.lapses =
             IF Last.before.state = Review /\ ~Last.correct
             THEN Last.before.lapses + 1
             ELSE Last.before.lapses
        /\ Written.lapses >= Last.before.lapses

\* A wrong answer in Relearning, after a lapse, left lapses alone.
C34_Witness ==
    /\ Len(calls) >= 2
    /\ Nth(2, 1).before.state = Review
    /\ ~Nth(2, 1).correct
    /\ Last.before.state = Relearning
    /\ ~Last.correct
    /\ Written.lapses = Last.before.lapses
    /\ Written.lapses = Nth(2, 1).before.lapses + 1

\* the changes of state the per-card state machine allows
Transitions ==
    { <<New, Learning>>, <<Learning, Learning>>, <<Learning, Review>>,
      <<Review, Review>>, <<Review, Relearning>>,
      <<Relearning, Relearning>>, <<Relearning, Review>> }

\* C35: an answer changes a card's state only along New->Learning,
\* Learning->Learning, Learning->Review, Review->Review, Review->Relearning,
\* Relearning->Relearning and Relearning->Review: no answered card is New
\* again, Learning never leads to Relearning, nor Relearning to Learning.
C35_StateMachine ==
    Called =>
        /\ << Last.before.state, Written.state >> \in Transitions
        /\ Written.state # New

\* A card went from Review to Relearning and stayed there on a wrong answer.
C35_Witness ==
    /\ Len(calls) >= 2
    /\ Nth(2, 1).before.state = Review
    /\ Nth(2, 2).before.state = Relearning
    /\ ~Last.correct
    /\ Written.state = Relearning

\* C36: every card reachable from the seeded defaults has step in {0, 1, 2},
\* and step 0 whenever its state is New, Review or Relearning.
C36_StepOnlyWhileLearning ==
    \A c \in progress :
        /\ c.step \in {0, 1, 2}
        /\ c.state \in {New, Review, Relearning} => c.step = 0

\* A card graduated from step 2 of the ladder: it is in Review at step 0.
C36_Witness ==
    /\ Called
    /\ Last.before.state = Learning
    /\ Last.before.step = 2
    /\ Last.correct
    /\ Written.state = Review
    /\ Written.step = 0

-----------------------------------------------------------------------------
(* srs.rs: successive calculations on one kana *)

\* calculate_new_progress on what the previous call returned, the first call
\* on UserProgress::new, as check_answer runs it answer after answer
Sm2Call ==
    /\ answers < MaxAnswers
    /\ \E grade \in Grades :
         LET current == IF sm2 = NoSm2 THEN NewProgress(now) ELSE sm2.result
         IN  sm2' = [grade |-> grade, current |-> current,
                     result |-> CalculateNewProgress(current, grade, now)]
    /\ answers' = answers + 1
    /\ UNCHANGED <<progress, now, growths, calls, batch, fetched,
                   due_cards, current_card_index, cycle_mistakes, submitted,
                   mutex, tasks, twin, app, key_event, client>>

NextSm2Calls == Sm2Call

SpecSm2Calls == Init /\ [][NextSm2Calls]_vars

\* C40: after any sequence of calculate_new_progress calls with grades 0..5
\* from the default progress (easiness 2.5) the easiness factor is at least
\* 1.3.
C40_EasinessFloor ==
    Calculated =>
        /\ sm2.current.easiness_factor >= 130
        /\ sm2.result.easiness_factor >= 130

\* The floor acted: the sum fell below 1.3 and 1.3 was stored.
C40_Witness ==
    /\ Calculated
    /\ answers >= 2
    /\ sm2.current.easiness_factor + EfDelta(sm2.grade) < 130
    /\ sm2.result.easiness_factor = 130

-----------------------------------------------------------------------------
(* The terminal quiz: Enter submits, then advances *)

-----------------------------------------------------------------------------
(* get_next_batch: the rows of a batch *)

\* the rows of the table that the batch holds, and those it leaves out
Taken == {c \in progress : \E i \in 1 .. Len(batch) : batch[i].id = c.id}
LeftOut == progress \ Taken

\* C37: a batch never holds the same card twice, also when the backfill
\* query returns cards the due query had already selected.
C37_NoCardTwice ==
    \A i, j \in 1 .. Len(batch) : batch[i].id = batch[j].id => i = j

\* Due cards and backfilled cards that are not yet due share a batch: the
\* backfill query returned the due cards again.
C37_Witness ==
    /\ Fetched
    /\ \E c \in Taken : IsDue(c, fetched)
    /\ \E c \in Taken : c.state # New /\ ~IsDue(c, fetched)

\* now - last_review - interval at the time of the batch
Overdue(c) == fetched - c.last_review - c.interval

\* C31: within one priority group of due cards the selection is most overdue
\* first: no due card left out of the batch is overdue by more (now -
\* last_review - interval) than a due card of the same group in it.
C31_MostOverdueFirst ==
    Fetched =>
        \A x \in LeftOut, y \in Taken :
            ( /\ IsDue(x, fetched)
              /\ IsDue(y, fetched)
              /\ Priority(x) = Priority(y) ) => Overdue(x) <= Overdue(y)

-----------------------------------------------------------------------------
(* Batches that review ahead *)

\* A table of nd due Review rows, nn New rows, nx Relearning rows answered
\* within the last minutes and due in 600 - 10 * i seconds, and na Review rows
\* due in 60 * i seconds.
AheadPool(nd, nn, nx, na) ==
    LET o2 == nd
        o3 == o2 + nn
        o4 == o3 + nx
    IN  {Answered(i, Review, 86400, 86400 + 100 * i, 0, FALSE) : i \in 1 .. nd}
        \cup {DefaultRow(o2 + i) : i \in 1 .. nn}
        \cup {Answered(o3 + i, Relearning, 600, 10 * i, 1, FALSE) : i \in 1 .. nx}
        \cup {Answered(o4 + i, Review, 86400, 86400 - 60 * i, 0, FALSE) : i \in 1 .. na}

AheadPools ==
    { AheadPool(nd, nn, nx, na) :
        nd \in {0, 3}, nn \in {0, 2, 20}, nx \in {0, 3, 19}, na \in {0, 3} }

InitAhead ==
    /\ progress \in AheadPools
    /\ now = Epoch
    /\ answers = 0
    /\ growths = 0
    /\ calls = <<>>
    /\ batch = <<>>
    /\ fetched = NoReview
    /\ AppNew
    /\ TuiOff

SpecAhead == InitAhead /\ [][NextBatch]_vars

\* a reviewed card that was not due when the batch was fetched
NotYetDue(c) == c.state \in {Learning, Review, Relearning} /\ ~IsDue(c, fetched)

\* the first half of C32: a card not yet due is in a batch only if every due
\* card and every New card of the table is in it
AheadIsLastResort ==
    (Fetched /\ \E y \in Taken : NotYetDue(y)) =>
        \A x \in LeftOut : x.state # New /\ ~IsDue(x, fetched)

\* C32: review-ahead backfill is a last resort: a card not yet due is in a
\* batch only if every due card and every New card of the table is in it, and
\* among the cards not yet due those with the earliest due time (last_review +
\* interval) are taken first.
C32_ReviewAheadSoonestFirst ==
    /\ AheadIsLastResort
    /\ Fetched =>
         \A x \in LeftOut, y \in Taken :
             (NotYetDue(x) /\ NotYetDue(y)) => DueTime(y) <= DueTime(x)

-----------------------------------------------------------------------------
(* frontend/src/main.rs: the web client *)

\* str::replace: every match of `from`, left to right, without overlap
RECURSIVE Replace(_, _, _)
Replace(s, from, to) ==
    IF Len(s) < Len(from) THEN s
    ELSE IF SubSeq(s, 1, Len(from)) = from
    THEN to \o Replace(SubSeq(s, Len(from) + 1, Len(s)), from, to)
    ELSE <<Head(s)>> \o Replace(Tail(s), from, to)

\* the array `replacements`: (target, replacement) in the order of the source
Replacements ==
    << << <<"t", "s", "u">>, <<"t", "s", "u">> >>,
       << <<"t", "u">>, <<"t", "s", "u">> >>,
       << <<"s", "h", "i">>, <<"s", "h", "i">> >>,
       << <<"s", "i">>, <<"s", "h", "i">> >>,
       << <<"c", "h", "i">>, <<"c", "h", "i">> >>,
       << <<"t", "i">>, <<"c", "h", "i">> >>,
       << <<"f", "u">>, <<"f", "u">> >>,
       << <<"h", "u">>, <<"f", "u">> >>,
       << <<"j", "i">>, <<"j", "i">> >>,
       << <<"z", "i">>, <<"j", "i">> >>,
       << <<"d", "i">>, <<"j", "i">> >>,
       << <<"z", "u">>, <<"z", "u">> >>,
       << <<"d", "u">>, <<"z", "u">> >>,
       << <<"s", "h", "a">>, <<"s", "h", "a">> >>,
       << <<"s", "y", "a">>, <<"s", "h", "a">> >>,
       << <<"s", "h", "u">>, <<"s", "h", "u">> >>,
       << <<"s", "y", "u">>, <<"s", "h", "u">> >>,
       << <<"s", "h", "o">>, <<"s", "h", "o">> >>,
       << <<"s", "y", "o">>, <<"s", "h", "o">> >>,
       << <<"c", "h", "a">>, <<"c", "h", "a">> >>,
       << <<"t", "y", "a">>, <<"c", "h", "a">> >>,
       << <<"c", "h", "u">>, <<"c", "h", "u">> >>,
       << <<"t", "y", "u">>, <<"c", "h", "u">> >>,
       << <<"c", "h", "o">>, <<"c", "h", "o">> >>,
       << <<"t", "y", "o">>, <<"c", "h", "o">> >>,
       << <<"j", "a">>, <<"j", "a">> >>,
       << <<"z", "y", "a">>, <<"j", "a">> >>,
       << <<"j", "y", "a">>, <<"j", "a">> >>,
       << <<"j", "u">>, <<"j", "u">> >>,
       << <<"z", "y", "u">>, <<"j", "u">> >>,
       << <<"j", "y", "u">>, <<"j", "u">> >>,
       << <<"j", "o">>, <<"j", "o">> >>,
       << <<"z", "y", "o">>, <<"j", "o">> >>,
       << <<"j", "y", "o">>, <<"j", "o">> >> >>

\* the loop over `replacements` from its i-th entry on
RECURSIVE ReplacedFrom(_, _, _)
ReplacedFrom(s, table, i) ==
    IF i > Len(table) THEN s
    ELSE ReplacedFrom(IF table[i][1] # table[i][2]
                      THEN Replace(s, table[i][1], table[i][2])
                      ELSE s,
                      table, i + 1)

\* normalize_input
NormalizeInput(input) ==
    ReplacedFrom(Replace(ToLowercase(Trim(input)), <<" ">>, <<>>), Replacements, 1)

\* a card of BatchResponse.cards: its id and romaji
WebCard(id, romaji) == [id |-> id, romaji |-> romaji]

\* The batches /api/next_batch answers with: none, one card of each canonical
\* romaji of the table, and a batch of two cards.
WebBatches ==
    {<<>>}
        \cup {<<WebCard(1, Replacements[i][2])>> : i \in 1 .. Len(Replacements)}
        \cup {<< WebCard(1, <<"t", "s", "u">>), WebCard(2, <<"s", "h", "i">>) >>}

\* What is typed for a card: a spelling the table rewrites to its romaji,
\* the romaji, nothing, or something else.
TypedFor(card) ==
    {Replacements[i][1] : i \in {j \in 1 .. Len(Replacements) :
                                    Replacements[j][2] = card.romaji}}
        \cup {card.romaji, <<>>, <<"a">>}

\* POST /api/submit requests the client issues in a run
MaxPosts == 3

NoFeedback == [shown |-> FALSE]
Feedback(correct) == [shown |-> TRUE, correct |-> correct]
NoPost == [card_id |-> 0]

\* Quiz(): the signals as created, and the first effect's fetch_next_batch
NewClient ==
    [ cards         |-> <<>>,
      current_index |-> 0,
      user_input    |-> <<>>,
      feedback      |-> NoFeedback,
      loading       |-> TRUE,
      error_msg     |-> FALSE,
      fetching      |-> 1,                         \* GET tasks in flight
      submitting    |-> [b \in BOOLEAN |-> 0],     \* POST tasks in flight, by is_correct
      posts         |-> 0,                         \* POSTs since the card was presented
      posted        |-> NoPost,                    \* the last POST and what was compared
      sent          |-> 0 ]                        \* POSTs so far

\* fetch_next_batch up to spawn_local
FetchNextBatch(c) ==
    [c EXCEPT !.loading = TRUE, !.error_msg = FALSE, !.fetching = c.fetching + 1]

\* the task of fetch_next_batch: the response is a batch and the server's
\* cursor in it, or the request or the parsing fails
WebFetchDone ==
    /\ client # NoClient
    /\ client.fetching > 0
    /\ \/ \E b \in WebBatches, idx \in 0 .. 1 :
            /\ idx < Len(b) \/ idx = 0
            /\ client' = [client EXCEPT !.fetching = client.fetching - 1,
                                        !.cards = b,
                                        !.feedback = NoFeedback,
                                        !.user_input = <<>>,
                                        !.current_index = idx,
                                        !.loading = FALSE,
                                        !.posts = 0]
       \/ client' = [client EXCEPT !.fetching = client.fetching - 1,
                                   !.error_msg = TRUE,
                                   !.loading = FALSE]
    /\ UNCHANGED <<progress, now, answers, growths, calls, batch, fetched,
                   due_cards, current_card_index, cycle_mistakes, submitted,
                   mutex, tasks, twin, app, key_event, sm2>>

\* is_submitted
IsSubmitted(c) == c.feedback.shown

\* on:input of the text field, which is there when cards is not empty and
\* is read-only while submitted, loading or in error
WebInput ==
    /\ client # NoClient
    /\ client.cards # <<>>
    /\ ~(IsSubmitted(client) \/ client.loading \/ client.error_msg)
    /\ client.current_index < Len(client.cards)
    /\ \E v \in TypedFor(client.cards[client.current_index + 1]) :
         client' = [client EXCEPT !.user_input = v]
    /\ UNCHANGED <<progress, now, answers, growths, calls, batch, fetched,
                   due_cards, current_card_index, cycle_mistakes, submitted,
                   mutex, tasks, twin, app, key_event, sm2>>

\* submit_answer up to spawn_local: the comparison, and the task that POSTs
SubmitAnswer(c) ==
    IF c.current_index >= Len(c.cards) THEN c
    ELSE LET card       == c.cards[c.current_index + 1]
             is_correct == NormalizeInput(c.user_input) = NormalizeInput(card.romaji)
         IN  [c EXCEPT !.submitting[is_correct] = c.submitting[is_correct] + 1,
                       !.posts = c.posts + 1,
                       !.sent = c.sent + 1,
                       !.posted = [card_id |-> card.id, romaji |-> card.romaji,
                                   input |-> c.user_input, correct |-> is_correct]]

\* next_card
NextCard(c) ==
    IF c.current_index + 1 >= Len(c.cards) THEN FetchNextBatch(c)
    ELSE [c EXCEPT !.feedback = NoFeedback,
                   !.user_input = <<>>,
                   !.current_index = c.current_index + 1,
                   !.posts = 0]

\* handle_global_enter on the Enter key
WebEnter ==
    /\ client # NoClient
    /\ client.sent < MaxPosts
    /\ client' = IF client.error_msg THEN FetchNextBatch(client)
                 ELSE IF client.loading THEN client
                 ELSE IF IsSubmitted(client) THEN NextCard(client)
                 ELSE SubmitAnswer(client)
    /\ UNCHANGED <<progress, now, answers, growths, calls, batch, fetched,
                   due_cards, current_card_index, cycle_mistakes, submitted,
                   mutex, tasks, twin, app, key_event, sm2>>

\* the Retry button of the error overlay
WebRetry ==
    /\ client # NoClient
    /\ client.error_msg
    /\ client' = FetchNextBatch(client)
    /\ UNCHANGED <<progress, now, answers, growths, calls, batch, fetched,
                   due_cards, current_card_index, cycle_mistakes, submitted,
                   mutex, tasks, twin, app, key_event, sm2>>

\* the task of submit_answer after the POST returned, whatever it returned:
\* set_feedback
WebSubmitDone ==
    /\ client # NoClient
    /\ \E is_correct \in BOOLEAN :
         /\ client.submitting[is_correct] > 0
         /\ client' = [client EXCEPT !.submitting[is_correct] =
                                         client.submitting[is_correct] - 1,
                                     !.feedback = Feedback(is_correct)]
    /\ UNCHANGED <<progress, now, answers, growths, calls, batch, fetched,
                   due_cards, current_card_index, cycle_mistakes, submitted,
                   mutex, tasks, twin, app, key_event, sm2>>

InitWeb ==
    /\ progress = {}
    /\ now = Epoch
    /\ answers = 0
    /\ growths = 0
    /\ calls = <<>>
    /\ batch = <<>>
    /\ fetched = NoReview
    /\ AppNew
    /\ app = NoApp
    /\ key_event = NoKey
    /\ sm2 = NoSm2
    /\ client = NewClient

NextWeb ==
    \/ WebFetchDone
    \/ WebInput
    \/ WebEnter
    \/ WebRetry
    \/ WebSubmitDone

SpecWeb == InitWeb /\ [][NextWeb]_vars

\* C38: the web client submits each presented card at most once: while a
\* submit request is in flight a further Enter issues no second POST
\* /api/submit for the card.
C38_OnePostPerCard ==
    client # NoClient => client.posts <= 1

\* C39: for every pair (alias, canonical) of the replacement table
\* normalize_input gives the same string, so an answer typed in the alias
\* spelling compares equal to a card whose romaji is the canonical spelling.
C39_AliasMatchesCanonical ==
    ( /\ client # NoClient
      /\ client.posted # NoPost
      /\ \E i \in 1 .. Len(Replacements) :
           Replacements[i] = << client.posted.input, client.posted.romaji >> ) =>
        /\ client.posted.correct
        /\ NormalizeInput(client.posted.input) = NormalizeInput(client.posted.romaji)


=============================================================================
